---- MODULE Spec2Model ----
(***************************************************************************)
(* Position lifecycle engine of the trading bot: the webhook handler       *)
(* (src/main.py), the position manager (src/position_manager.py), the      *)
(* price monitor (src/price_monitor.py) and the reconciliation script      *)
(* (src/sync_positions.py), over the tables of src/models.py.              *)
(*                                                                         *)
(* Quantities are Python floats in the source.  Here a quantity is an      *)
(* integer number of units of 1e-7, and a fraction is an integer number of *)
(* tenths; the inputs are chosen so that every product is exact.           *)
(***************************************************************************)
EXTENDS Integers, Sequences, FiniteSets, TLC

VARIABLES
    positions,          \* committed rows of table positions (models.py:14-48)
    processed_events,   \* committed rows of table processed_events: event ids
    active_monitors,    \* PriceMonitor.active_monitors (price_monitor.py:26)
    account_configs,    \* AccountConfigManager.accounts (account_config.py:19)
    routing_rules,      \* AccountConfigManager.routing_rules (account_config.py:20)
    in_flight,          \* the request whose session is open: what its commit
                        \* will store (main.py:210-734)
    retry,              \* one run of a retry wrapper: what the wrapped
                        \* operation does call by call, and what the
                        \* wrappers make of it (main.py:41-58)
    workers             \* the server processes that answer POST /webhook
                        \* side by side: where each is in its request

\* the configuration, loaded once when the process starts
config == <<account_configs, routing_rules>>

\* the variables the webhook, the monitor and the reconciliation leave alone
aux == <<retry, workers>>

vars == <<positions, processed_events, active_monitors, account_configs, routing_rules,
          in_flight, retry, workers>>

----------------------------------------------------------------------------
(* Bounds of the model *)

\* number of distinct event ids the signal source uses
MaxEvents == 3

EventIds == 1..MaxEvents

\* number of signals the router is followed through
MaxRoutedEvents == 2

----------------------------------------------------------------------------
(* Program constants *)

\* 0.000001, the minimum close quantity, in units of 1e-7 (main.py:514, 584)
MinCloseQty == 10
\* the default take-profit fraction 0.2, in tenths (main.py:503-509)
DefaultTpFraction == 2
Max(a, b) == IF a >= b THEN a ELSE b
Min(a, b) == IF a <= b THEN a ELSE b

\* initial_qty * tp_percentage, a fraction being a number of tenths
Mul(q, f) == (q * f) \div 10

\* An optional value: <<>> is Python's None (or an absent key), <<v>> is v.
None == <<>>
Some(v) == <<v>>
IsNone(o) == Len(o) = 0
Val(o) == o[1]

----------------------------------------------------------------------------
(* Accounts, symbols, strategies.  A name is the sequence of its parts     *)
(* between underscores: "ACC_A" is <<"ACC", "A">>.                         *)

ACC_A == <<"ACC", "A">>
ACC_B == <<"ACC", "B">>
ACC_C == <<"ACC", "C">>
Symbol == "BTCUSDT"
Strategies == {<<"arts">>}

\* the text of a symbol, character by character
SymbolChars ==
    ("BTCUSDT" :> <<"B", "T", "C", "U", "S", "D", "T">> @@
     "ETHUSDT" :> <<"E", "T", "H", "U", "S", "D", "T">> @@
     "BTC-USD" :> <<"B", "T", "C", "-", "U", "S", "D">> @@
     "" :> <<>>)
UpperCase == {"A", "B", "C", "D", "E", "F", "G", "H", "I", "J", "K", "L", "M",
              "N", "O", "P", "Q", "R", "S", "T", "U", "V", "W", "X", "Y", "Z"}

\* one entry of AccountConfigManager.accounts (account_config.py:53-63);
\* an account whose ENABLED setting is false is not loaded at all
AccountConfig(size, allow, deny) ==
    [enabled |-> TRUE, position_size |-> size,
     symbols_allowlist |-> allow, symbols_denylist |-> deny]

\* AccountConfigManager.accounts of a deployment without symbol lists:
\* ACC_A and ACC_B are configured and enabled, ACC_C is not.
AccountConfigs ==
    (ACC_A :> AccountConfig(10000000, {}, {}) @@
     ACC_B :> AccountConfig(20000000, {}, {}))

AllAccounts == {ACC_A, ACC_B, ACC_C}

\* list(self.accounts.keys()): the loaded accounts in the order they were
\* loaded
LoadedAccounts(cfgs) == SelectSeq(<<ACC_A, ACC_B, ACC_C>>, LAMBDA a : a \in DOMAIN cfgs)

\* one routing rule: its accounts and the symbol filters of its 'filters'
RoutingRule(accts, allowed, denied) ==
    [accounts |-> accts, allowed_symbols |-> allowed, denied_symbols |-> denied]

DefaultRule == <<"default">>

\* _load_routing_rules without CUSTOM_ROUTING_RULES: the rule 'default'
\* routes to every loaded account and filters no symbol
DefaultRoutingRules(cfgs) == DefaultRule :> RoutingRule(LoadedAccounts(cfgs), {}, {})

\* SymbolManager.strategy_allowlists and strategy_denylists: created empty,
\* and nothing in the program calls the setters
strategy_allowlists == [s \in {} |-> {}]
strategy_denylists == [s \in {} |-> {}]

\* get_account_config(acc_id): None for an account that is not loaded
get_account_config(acc) ==
    IF acc \in DOMAIN account_configs THEN Some(account_configs[acc]) ELSE None

\* an account filter that admits every symbol of a loaded account
is_symbol_allowed_any(acc, sym) == ~IsNone(get_account_config(acc))

\* is_symbol_allowed: the deny list first, then the allow list; an empty
\* list is no list
is_symbol_allowed(acc, sym) ==
    LET cfg == get_account_config(acc) IN
    IF IsNone(cfg) THEN FALSE
    ELSE IF Val(cfg).symbols_denylist # {} /\ sym \in Val(cfg).symbols_denylist THEN FALSE
    ELSE IF Val(cfg).symbols_allowlist # {} /\ sym \notin Val(cfg).symbols_allowlist THEN FALSE
    ELSE TRUE

\* is_symbol_valid: re.match(r'^[A-Z]{3,}[A-Z]{3,}$', symbol), that is six
\* or more capital letters and nothing else
is_symbol_valid(sym) ==
    LET cs == SymbolChars[sym] IN
    Len(cs) >= 6 /\ \A i \in 1..Len(cs) : cs[i] \in UpperCase

\* is_symbol_allowed_for_strategy: the format of the symbol, the lists of
\* the strategy, then the account filter again
is_symbol_allowed_for_strategy(sym, strat, acc) ==
    IF ~is_symbol_valid(sym) THEN FALSE
    ELSE IF strat \in DOMAIN strategy_allowlists /\ strategy_allowlists[strat] # {}
            /\ sym \notin strategy_allowlists[strat] THEN FALSE
    ELSE IF strat \in DOMAIN strategy_denylists /\ strategy_denylists[strat] # {}
            /\ sym \in strategy_denylists[strat] THEN FALSE
    ELSE is_symbol_allowed(acc, sym)

\* the rule of the strategy, or else the rule 'default'
\* (account_config.py:157)
RuleFor(strat) ==
    IF strat \in DOMAIN routing_rules THEN Some(routing_rules[strat])
    ELSE IF DefaultRule \in DOMAIN routing_rules THEN Some(routing_rules[DefaultRule])
    ELSE None

\* one iteration of the loop of get_accounts_for_strategy
\* (account_config.py:165-186): is the account eligible
Eligible(rule, acc, sym) ==
    /\ acc \in DOMAIN account_configs
    /\ account_configs[acc].enabled
    /\ is_symbol_allowed(acc, sym)
    /\ ~(rule.allowed_symbols # {} /\ sym \notin rule.allowed_symbols)
    /\ ~(rule.denied_symbols # {} /\ sym \in rule.denied_symbols)

\* a router that returns the accounts of the rule as they are
get_accounts_for_strategy_unfiltered(strat, sym) ==
    IF IsNone(RuleFor(strat)) THEN <<>> ELSE Val(RuleFor(strat)).accounts

\* get_accounts_for_strategy (account_config.py:152-188)
get_accounts_for_strategy(strat, sym) ==
    LET rule == RuleFor(strat) IN
    IF IsNone(rule) THEN <<>>
    ELSE SelectSeq(Val(rule).accounts, LAMBDA a : Eligible(Val(rule), a, sym))

\* f"{acc_id}_{symbol}_{strategy_id}"
PosId(acc, sym, strat) == acc \o <<sym>> \o strat

----------------------------------------------------------------------------
(* Table positions *)

\* Position(...) with the column defaults of models.py
NewPosition(id, acc, sym, strat, side, qty, price, order_id, tp_levels) ==
    [id |-> id, account_id |-> acc, symbol |-> sym, strategy_id |-> strat,
     side |-> side, initial_qty |-> qty, remaining_qty |-> qty,
     status |-> "OPEN", tp_level |-> 0,
     closed_qty_tp1 |-> 0, closed_qty_tp2 |-> 0, closed_qty_tp3 |-> 0,
     closed_qty_tp4 |-> 0, closed_qty_tp5 |-> 0,
     sl_closed_qty |-> 0, timeguard_closed_qty |-> 0, maxbars_closed_qty |-> 0,
     swingtp_closed_qty |-> 0, dyn_tp_closed_qty |-> 0, other_closed_qty |-> 0,
     entry_price |-> price, order_ids |-> <<order_id>>, tp_levels |-> tp_levels]

\* db.query(Position).filter(Position.id == id): the rows with that id
RowsById(tbl, id) == {r \in tbl : r.id = id}

\* a lookup that finds no OPEN row
OpenPositionLookup_blind(tbl, id) == {}

\* ... .filter(Position.id == id, Position.status == 'OPEN').first()
OpenPositionLookup(tbl, id) == {r \in RowsById(tbl, id) : r.status = "OPEN"}

\* the sum of all closed-quantity buckets of a row
TotalClosed(r) ==
    r.closed_qty_tp1 + r.closed_qty_tp2 + r.closed_qty_tp3 + r.closed_qty_tp4
    + r.closed_qty_tp5 + r.sl_closed_qty + r.timeguard_closed_qty
    + r.maxbars_closed_qty + r.swingtp_closed_qty + r.dyn_tp_closed_qty
    + r.other_closed_qty

----------------------------------------------------------------------------
(* Event types (main.py:348, 496, 576) *)

EntryTypes == {"LONG_ENTRY", "SHORT_ENTRY"}
PartialTypes == {"TP1_HIT", "TP2_HIT", "TP3_HIT", "TP4_HIT"}
FullCloseTypes == {"STOP", "TP5_HIT", "TIME_GUARD", "MAX_BARS", "SWING_TP", "DYN_TP", "CLOSE"}
EventTypes == EntryTypes \cup PartialTypes \cup FullCloseTypes

\* int(event_type[2]) for "TPn_HIT"
TpLevelOf(event_type) ==
    CASE event_type = "TP1_HIT" -> 1
      [] event_type = "TP2_HIT" -> 2
      [] event_type = "TP3_HIT" -> 3
      [] event_type = "TP4_HIT" -> 4
      [] event_type = "TP5_HIT" -> 5

\* What the exchange answers to execute_order (and to the last-price query):
\*   filled           the order is placed and a fill price is known
\*   filled_no_price  the order is placed, the response has no price and the
\*                    last-price query gives none either
\*   rejected         the exchange raises an error, no order is placed
\*   rejected_qty     the exchange raises a quantity error ("Quantity less
\*                    than or equal to zero"), no order is placed
OrderOutcomes == {"filled", "filled_no_price", "rejected", "rejected_qty"}
\* the price a filled order reports (an input: any positive price)
FillPrice == 100
\* the order id the exchange returns; the model does not tell the ids apart
OrderId == "oid"
\* the quantity 0.001 the handler falls back to (main.py:337)
FallbackQty == 10000

NoResult == [status |-> "none", action |-> "none"]
Result(st, ac) == [status |-> st, action |-> ac]

----------------------------------------------------------------------------
(* The per-account body of the webhook handler.  h is the handler's state  *)
(* while it runs:                                                          *)
(*   tbl   the committed table (create_new_position commits into it)       *)
(*   sess  the table as the handler's session sees it: tbl with the        *)
(*         session's own uncommitted changes                               *)
(*   mon   active_monitors                                                 *)
(*   orders  the orders placed by this request, attempts  who tried one    *)
(*   results  processing_results;  all_successful;  quantity  the local    *)
(*   variable quantity of the handler;  inserting  whether                 *)
(*   create_new_position was called                                        *)

\* exchange_manager.execute_order succeeds: the order is on the exchange
PlaceOrder(h, acc, side, qty, reduce_only) ==
    [h EXCEPT !.orders = Append(@, [account |-> acc, side |-> side, qty |-> qty,
                                    reduce_only |-> reduce_only])]

SetResult(h, acc, st, ac) == [h EXCEPT !.results[acc] = Result(st, ac)]

SetError(h, acc, ac) ==
    [SetResult(h, acc, "error", ac) EXCEPT !.all_successful = FALSE]

\* "buy" if "LONG" in event_type or side == "long" else "sell"
OrderSide(event_type, side) ==
    IF event_type = "LONG_ENTRY" \/ side = "long" THEN "buy" ELSE "sell"

\* PriceMonitor.add_position_to_monitor (price_monitor.py:45-60), called with
\* a row object of the handler's own session: its tp_levels were just
\* assigned and are readable.  The monitor keeps the object; session_open
\* tells whether the session that owns it is still open.
add_position_to_monitor(mon, acc, sym, row) ==
    IF row.tp_levels # {}
    THEN [mon EXCEPT ![<<acc, sym>>] =
            Some([position |-> row.id, initial_qty |-> row.initial_qty,
                  tp_levels |-> row.tp_levels, side |-> row.side,
                  session_open |-> TRUE])]
    ELSE mon

\* a reopen that starts the row's bookkeeping afresh
ReopenPosition_reset(row, side, qty, price, tp_levels) ==
    NewPosition(row.id, row.account_id, row.symbol, row.strategy_id, side, qty,
                price, OrderId, tp_levels)

\* a reopen that sets the status and keeps the quantities of the old trade
ReopenPosition_stale(row, side, qty, price, tp_levels) ==
    [row EXCEPT !.status = "OPEN", !.side = side, !.entry_price = price,
                !.tp_levels = tp_levels]

\* main.py:398-411: the CLOSED row is set OPEN again with the new values;
\* the buckets, tp_level and order_ids are left as they are
ReopenPosition(row, side, qty, price, tp_levels) ==
    [row EXCEPT !.status = "OPEN", !.side = side, !.initial_qty = qty,
                !.remaining_qty = qty, !.entry_price = price,
                !.tp_levels = tp_levels]

\* an insert under a surrogate key, one per insert
create_new_position_surrogate(tbl, acc, sym, strat, side, qty, price, order_id, tp_levels) ==
    LET id == PosId(acc, sym, strat) \o [i \in 1..(Cardinality(tbl) + 1) |-> "n"] IN
    [ok |-> TRUE,
     tbl |-> tbl \cup {NewPosition(id, acc, sym, strat, side, qty, price,
                                   order_id, tp_levels)}]

\* PositionManager.create_new_position (position_manager.py:243-273): a
\* session of its own inserts the row and commits.  The id is the primary
\* key (models.py:18): inserting a second row with an id raises.
create_new_position(tbl, acc, sym, strat, side, qty, price, order_id, tp_levels) ==
    LET id == PosId(acc, sym, strat) IN
    IF RowsById(tbl, id) # {}
    THEN [ok |-> FALSE, tbl |-> tbl]
    ELSE [ok |-> TRUE,
          tbl |-> tbl \cup {NewPosition(id, acc, sym, strat, side, qty, price,
                                        order_id, tp_levels)}]

\* main.py:355-423: ENTRY for a key whose row exists and is not OPEN
\* a price resolution that falls back to the price 0
EntryPrice_zero(out) == IF out = "filled_no_price" THEN Some(0) ELSE Some(FillPrice)

\* main.py:384-396, 449-462: the price of the order response, or else the
\* last traded price; None if neither is there
EntryPrice(out) == IF out = "filled_no_price" THEN None ELSE Some(FillPrice)

EntryReopen(h, req, env, acc, existing, qty) ==
    LET side == OrderSide(req.event_type, req.side)
        out == env.order[acc]
        h1 == [h EXCEPT !.attempts[acc] = "entry"]
    IN  IF out \in {"rejected", "rejected_qty"}
        THEN SetError(h1, acc, "entry")
        ELSE LET h2 == PlaceOrder(h1, acc, side, qty, FALSE) IN
             IF IsNone(EntryPrice(out))
             THEN SetError(h2, acc, "entry")
             ELSE LET row == ReopenPosition(existing, side, qty, Val(EntryPrice(out)),
                                                 req.tp_levels)
                      h3 == [h2 EXCEPT !.sess = (@ \ {existing}) \cup {row}]
                  IN  [SetResult(h3, acc, "success", "entry") EXCEPT
                          !.mon = add_position_to_monitor(@, acc, req.symbol, row)]

\* main.py:426-488: ENTRY for a key without a row.  create_new_position
\* writes through a session and a connection of its own while the handler's
\* session holds the ProcessedEvent row it has flushed but not committed
\* (main.py:288, flushed by the query at 341).  A database that admits one
\* writer at a time (SQLite, the default DATABASE_URL) refuses the insert
\* with "database is locked" until the retries are used up; one that locks
\* by row stores it.  env.insert_ok is which of the two the database does.
\* create_new_position returns its row object after its session has
\* committed and closed: the object is detached and expired, and
\* add_position_to_monitor's read of position.tp_levels raises; the handler
\* records an error for the account.
EntryCreate(h, req, env, acc, qty) ==
    LET side == OrderSide(req.event_type, req.side)
        out == env.order[acc]
        h1 == [h EXCEPT !.attempts[acc] = "entry"]
    IN  IF out \in {"rejected", "rejected_qty"}
        THEN SetError(h1, acc, "entry")
        ELSE LET h2 == PlaceOrder(h1, acc, side, qty, FALSE) IN
             IF IsNone(EntryPrice(out))
             THEN SetError(h2, acc, "entry")
             ELSE IF ~env.insert_ok
             THEN SetError([h2 EXCEPT !.inserting = TRUE], acc, "entry")
             ELSE LET c == create_new_position(h2.tbl, acc, req.symbol, req.strategy_id,
                                               side, qty, Val(EntryPrice(out)), OrderId,
                                               req.tp_levels)
                  IN  IF ~c.ok
                      THEN SetError(h2, acc, "entry")
                      ELSE LET h3 == [h2 EXCEPT !.tbl = c.tbl,
                                                !.sess = @ \cup (c.tbl \ h2.tbl),
                                                !.inserting = TRUE]
                           IN  IF req.tp_levels # {}
                               THEN SetError(h3, acc, "entry")
                               ELSE SetResult(h3, acc, "success", "entry")

\* a bookkeeping that overwrites the watermark with the tier of the event
PartialExitUpdate_overwrite(pos, close_qty, tp_level, order_id) ==
    [pos EXCEPT
        !.remaining_qty = @ - close_qty,
        !.closed_qty_tp1 = IF tp_level = 1 THEN @ + close_qty ELSE @,
        !.closed_qty_tp2 = IF tp_level = 2 THEN @ + close_qty ELSE @,
        !.closed_qty_tp3 = IF tp_level = 3 THEN @ + close_qty ELSE @,
        !.closed_qty_tp4 = IF tp_level = 4 THEN @ + close_qty ELSE @,
        !.closed_qty_tp5 = IF tp_level = 5 THEN @ + close_qty ELSE @,
        !.tp_level = tp_level,
        !.order_ids = Append(@, order_id)]

\* main.py:536-567: the bookkeeping of a partial exit on the session's row.
\* The status is not touched.
PartialExitUpdate(pos, close_qty, tp_level, order_id) ==
    [pos EXCEPT
        !.remaining_qty = @ - close_qty,
        !.closed_qty_tp1 = IF tp_level = 1 THEN @ + close_qty ELSE @,
        !.closed_qty_tp2 = IF tp_level = 2 THEN @ + close_qty ELSE @,
        !.closed_qty_tp3 = IF tp_level = 3 THEN @ + close_qty ELSE @,
        !.closed_qty_tp4 = IF tp_level = 4 THEN @ + close_qty ELSE @,
        !.closed_qty_tp5 = IF tp_level = 5 THEN @ + close_qty ELSE @,
        !.tp_level = Max(@, tp_level),
        !.order_ids = Append(@, order_id)]

\* main.py:511-514: initial_qty * tp_percentage clamped to
\* [0.000001, remaining_qty], the lower bound winning
PartialCloseQty(pos, tp_percentage) ==
    Max(MinCloseQty, Min(Mul(pos.initial_qty, tp_percentage), pos.remaining_qty))

\* main.py:495-573: TP1_HIT..TP4_HIT on an OPEN row
PartialExit(h, req, env, acc, pos) ==
    LET tp_percentage == IF IsNone(req.tp_percentage) THEN DefaultTpFraction
                         ELSE Val(req.tp_percentage)
        close_qty == PartialCloseQty(pos, tp_percentage)
        exit_side == IF pos.side = "buy" THEN "sell" ELSE "buy"
        out == env.order[acc]
    IN  IF close_qty <= 0 \/ pos.remaining_qty <= 0
        THEN SetResult(h, acc, "warning", "partial_exit")
        ELSE LET h1 == [h EXCEPT !.attempts[acc] = "exit"] IN
             IF out \in {"rejected", "rejected_qty"}
             THEN SetError(h1, acc, "partial_exit")
             ELSE LET h2 == PlaceOrder(h1, acc, exit_side, close_qty, TRUE)
                      row == PartialExitUpdate(pos, close_qty, TpLevelOf(req.event_type), OrderId)
                  IN  SetResult([h2 EXCEPT !.sess = (@ \ {pos}) \cup {row}],
                                acc, "success", "partial_exit")

\* main.py:598-687: the bookkeeping of a full close on the session's row.
\* Each branch but CLOSE first subtracts remaining_qty from itself and then
\* adds the (new) remaining_qty to the bucket; only TP5_HIT and CLOSE set
\* the status.
FullCloseUpdate(pos, event_type, order_id) ==
    LET zeroed == [pos EXCEPT !.remaining_qty = @ - @,
                              !.order_ids = Append(@, order_id)]
        credit == zeroed.remaining_qty
    IN  CASE event_type = "STOP" ->
                [zeroed EXCEPT !.sl_closed_qty = @ + credit]
          [] event_type = "SWING_TP" ->
                [zeroed EXCEPT !.swingtp_closed_qty = @ + credit]
          [] event_type = "DYN_TP" ->
                [zeroed EXCEPT !.dyn_tp_closed_qty = @ + credit]
          [] event_type = "TIME_GUARD" ->
                [zeroed EXCEPT !.timeguard_closed_qty = @ + credit]
          [] event_type = "MAX_BARS" ->
                [zeroed EXCEPT !.maxbars_closed_qty = @ + credit]
          [] event_type = "TP5_HIT" ->
                [zeroed EXCEPT !.closed_qty_tp5 = @ + credit,
                               !.tp_level = Max(@, 5),
                               !.status = "CLOSED"]
          [] OTHER ->
                [pos EXCEPT !.remaining_qty = 0, !.status = "CLOSED",
                            !.order_ids = Append(@, order_id)]

\* the "action" the handler reports for a successful full close
FullCloseAction(event_type) ==
    CASE event_type = "STOP" -> "stop_loss"
      [] event_type = "SWING_TP" -> "swing_tp_exit"
      [] event_type = "DYN_TP" -> "dyn_tp_exit"
      [] event_type = "TIME_GUARD" -> "time_guard_exit"
      [] event_type = "MAX_BARS" -> "max_bars_exit"
      [] event_type = "TP5_HIT" -> "tp5_exit"
      [] OTHER -> "close"

\* main.py:575-698: a full-close event on an OPEN row
FullClose(h, req, env, acc, pos) ==
    LET close_qty == Max(MinCloseQty, pos.remaining_qty)
        exit_side == IF pos.side = "buy" THEN "sell" ELSE "buy"
        out == env.order[acc]
    IN  IF pos.remaining_qty <= 0
        THEN SetResult(h, acc, "warning", "exit")
        ELSE LET h1 == [h EXCEPT !.attempts[acc] = "exit"] IN
             IF out = "rejected_qty" THEN SetResult(h1, acc, "warning", "exit")
             ELSE IF out = "rejected" THEN SetError(h1, acc, "close")
             ELSE LET h2 == PlaceOrder(h1, acc, exit_side, close_qty, TRUE)
                      row == FullCloseUpdate(pos, req.event_type, OrderId)
                  IN  SetResult([h2 EXCEPT !.sess = (@ \ {pos}) \cup {row}],
                                acc, "success", FullCloseAction(req.event_type))

Abs(x) == IF x < 0 THEN -x ELSE x

\* main.py:316-337: the quantity of the signal, or else the account's
\* position_size; made positive, 0.001 if it is zero.  The result stays in
\* the handler's variable for the accounts after this one.
ResolveQuantity(quantity, cfg) ==
    LET q == IF IsNone(quantity) THEN cfg.position_size ELSE Val(quantity)
    IN  IF Abs(q) <= 0 THEN FallbackQty ELSE Abs(q)

\* an exit without an OPEN row reported as a failure of the account
NoOpenPosition_error(h, acc) == SetError(h, acc, "exit")

\* main.py:699-701: an exit event for a key without an OPEN row
NoOpenPosition(h, acc) == SetResult(h, acc, "warning", "exit")

\* main.py:296-706: one iteration of the loop over the accounts
ProcessAccount(h, req, env, acc) ==
    LET cfg == get_account_config(acc) IN
    IF IsNone(cfg) \/ ~Val(cfg).enabled THEN h
    ELSE IF ~is_symbol_allowed(acc, req.symbol) THEN h
    ELSE IF ~is_symbol_allowed_for_strategy(req.symbol, req.strategy_id, acc) THEN h
    ELSE
    LET qty == ResolveQuantity(h.quantity, Val(cfg))
        h0 == [h EXCEPT !.quantity = Some(qty)]
        id == PosId(acc, req.symbol, req.strategy_id)
        pos == OpenPositionLookup(h0.sess, id)
        existing_pos == RowsById(h0.sess, id)
    IN  IF req.event_type \in EntryTypes
        THEN IF pos # {}
             THEN SetResult(h0, acc, "warning", "entry")
             ELSE IF existing_pos # {} /\ (CHOOSE r \in existing_pos : TRUE).status # "OPEN"
                  THEN EntryReopen(h0, req, env, acc, CHOOSE r \in existing_pos : TRUE, qty)
                  ELSE EntryCreate(h0, req, env, acc, qty)
        ELSE IF pos # {}
             THEN LET p == CHOOSE r \in pos : TRUE IN
                  IF req.event_type \in PartialTypes THEN PartialExit(h0, req, env, acc, p)
                  ELSE IF req.event_type \in FullCloseTypes THEN FullClose(h0, req, env, acc, p)
                  ELSE h0
             ELSE NoOpenPosition(h0, acc)

\* a loop that stops at the first account that failed
RECURSIVE ProcessAccounts_abort(_, _, _, _)
ProcessAccounts_abort(h, req, env, accounts) ==
    IF accounts = <<>> \/ ~h.all_successful THEN h
    ELSE ProcessAccounts_abort(ProcessAccount(h, req, env, Head(accounts)), req, env,
                               Tail(accounts))

RECURSIVE ProcessAccounts(_, _, _, _)
ProcessAccounts(h, req, env, accounts) ==
    IF accounts = <<>> THEN h
    ELSE ProcessAccounts(ProcessAccount(h, req, env, Head(accounts)), req, env, Tail(accounts))

----------------------------------------------------------------------------
(* The webhook handler: handle_signal / execute_webhook_logic              *)
(* (main.py:192-737).  req is the JSON payload, env what the exchange and  *)
(* the database answer during the request.                                 *)

NoResults == [a \in AllAccounts |-> NoResult]
NoAttempts == [a \in AllAccounts |-> "none"]

\* the session is closed (main.py:732-734): the row objects the monitor
\* holds are detached from then on
CloseSession(mon) ==
    [k \in DOMAIN mon |->
        IF IsNone(mon[k]) THEN None
        ELSE Some([Val(mon[k]) EXCEPT !.session_open = FALSE])]

\* a lookup that finds no ProcessedEvent
AlreadyProcessed_never(evs, event_id) == FALSE

\* main.py:235-237: is there a ProcessedEvent with this event_id
AlreadyProcessed(evs, event_id) == event_id \in evs

\* a validation that admits every request
ValidateRequest_lax(req, evs) == 200

\* main.py:217-259: the checks before anything is written, in their order;
\* the HTTP status of the rejection, or 200 for a request that is admitted
ValidateRequest(req, evs) ==
    IF ~req.passphrase_ok THEN 401
    ELSE IF req.event_id = 0 THEN 400
    ELSE IF AlreadyProcessed(evs, req.event_id) THEN 409
    ELSE IF req.event_type = "" \/ req.symbol = "" \/ req.strategy_id = <<>> THEN 400
    ELSE 200

handle_signal(req, env, tbl, evs, mon) ==
    LET Rejected(code) ==
            [status_code |-> code, tbl |-> tbl, evs |-> evs, mon |-> mon,
             tbl_open |-> tbl, mon_open |-> mon,
             orders |-> <<>>, results |-> NoResults, attempts |-> NoAttempts,
             lost |-> FALSE, committing |-> FALSE, inserting |-> FALSE]
    IN  IF ValidateRequest(req, evs) # 200 THEN Rejected(ValidateRequest(req, evs))
        ELSE
        LET accounts == IF req.account_profile # <<>> THEN req.account_profile
                        ELSE get_accounts_for_strategy(req.strategy_id, req.symbol)
            h0 == [tbl |-> tbl, sess |-> tbl, mon |-> mon, orders |-> <<>>,
                   attempts |-> NoAttempts, results |-> NoResults,
                   all_successful |-> TRUE, quantity |-> req.quantity,
                   inserting |-> FALSE]
            h == ProcessAccounts(h0, req, env, accounts)
            Answer(code, t, e) ==
                [status_code |-> code, tbl |-> t, evs |-> e,
                 mon |-> CloseSession(h.mon),
                 \* before the commit: the table and the monitor
                 tbl_open |-> h.tbl, mon_open |-> h.mon,
                 orders |-> h.orders,
                 results |-> h.results, attempts |-> h.attempts,
                 lost |-> (h.sess # t),
                 committing |-> (h.all_successful \/ h.results # NoResults),
                 inserting |-> h.inserting]
        IN  \* main.py:708-721
            IF h.all_successful \/ h.results # NoResults
            THEN IF env.commit_ok
                 THEN Answer(200, h.sess, evs \cup {req.event_id})
                 ELSE Answer(500, h.tbl, evs)     \* main.py:728-731
            ELSE Answer(200, h.tbl, evs)

----------------------------------------------------------------------------
(* The inputs *)

Quantities == {None, Some(15)}
TpPercentages == {None, Some(20)}
TpLevelMaps == {{}, {[name |-> "TP1", price |-> 110, percent |-> 5]}}
\* explicit account lists (account_profile) of the signals
AccountProfiles == {<<ACC_A>>, <<ACC_C>>}
\* the event types of the signals
SignalTypes == EventTypes \ {"TP3_HIT", "TP4_HIT"}

\* the event ids a request may carry: one already recorded, or the next
\* one the signal source has not used (the ids are interchangeable)
CandidateEventIds(evs) ==
    evs \cup (IF EventIds \ evs = {} THEN {}
              ELSE {CHOOSE e \in EventIds \ evs : \A f \in EventIds \ evs : e <= f})

BaseRequest(event_id, event_type) ==
    [passphrase_ok |-> TRUE, event_id |-> event_id, event_type |-> event_type,
     symbol |-> Symbol, strategy_id |-> CHOOSE s \in Strategies : TRUE,
     account_profile |-> <<ACC_A>>, side |-> "none", quantity |-> None,
     tp_percentage |-> None, tp_levels |-> {}]

\* a field is only varied for the event types that read it, and for an
\* account that is loaded
Relevant(req) ==
    /\ req.event_type # "LONG_ENTRY" => req.quantity = None /\ req.tp_levels = {}
    /\ req.event_type \notin PartialTypes => req.tp_percentage = None
    /\ req.account_profile = <<ACC_C>> =>
          req.quantity = None /\ req.tp_levels = {} /\ req.tp_percentage = None

WellFormedRequests(event_id) ==
    {r \in {[BaseRequest(event_id, t) EXCEPT !.strategy_id = s, !.account_profile = ap,
                                             !.quantity = q, !.tp_percentage = f,
                                             !.tp_levels = lv] :
              t \in SignalTypes, s \in Strategies, ap \in AccountProfiles,
              q \in Quantities, f \in TpPercentages, lv \in TpLevelMaps} :
       Relevant(r)}

MalformedRequests(event_id) ==
    LET b == BaseRequest(event_id, "STOP") IN
    {[b EXCEPT !.passphrase_ok = FALSE], [b EXCEPT !.event_id = 0],
     [b EXCEPT !.event_type = ""], [b EXCEPT !.symbol = ""],
     [b EXCEPT !.strategy_id = <<>>]}

\* a request that carries a recorded event id is answered before the rest
\* of its payload is read (main.py:235-242)
Resubmissions(event_id) ==
    {BaseRequest(event_id, t) : t \in SignalTypes} \cup MalformedRequests(event_id)

Requests(evs) ==
    UNION {IF e \in evs THEN Resubmissions(e)
           ELSE WellFormedRequests(e) \cup MalformedRequests(e) :
           e \in CandidateEventIds(evs)}

QuietEnv == [order |-> [a \in AllAccounts |-> "filled"], insert_ok |-> TRUE,
             commit_ok |-> TRUE]

\* an answer of the environment is only varied where the handler asks for
\* it: an order outcome for an account that sends an order (the price only
\* for an entry, the kind of rejection only for an exit)
OutcomesFor(attempt, event_type) ==
    IF attempt = "entry" THEN OrderOutcomes \ {"rejected_qty"}
    ELSE IF attempt = "exit" /\ event_type \in FullCloseTypes
         THEN OrderOutcomes \ {"filled_no_price"}
    ELSE IF attempt = "exit" THEN {"filled", "rejected"}
    ELSE {"filled"}

\* who sends an order and whether the handler commits does not depend on
\* what the environment answers; the outcome of an insert or of the commit
\* is only varied when the handler inserts or commits
EnvsFor(req, tbl, evs, mon) ==
    LET r0 == handle_signal(req, QuietEnv, tbl, evs, mon)
        S(a) == OutcomesFor(r0.attempts[a], req.event_type)
    IN  {[order |-> [a \in AllAccounts |->
                        IF a = ACC_A THEN x ELSE IF a = ACC_B THEN y ELSE z],
          insert_ok |-> i, commit_ok |-> c] :
            x \in S(ACC_A), y \in S(ACC_B), z \in S(ACC_C),
            i \in IF r0.inserting THEN BOOLEAN ELSE {TRUE},
            c \in IF r0.committing THEN BOOLEAN ELSE {TRUE}}

----------------------------------------------------------------------------
(* The price monitor (price_monitor.py)                                    *)

\* PositionManager.update_position_after_partial_exit
\* (position_manager.py:76-123).  The inner function assigns to the name
\* position (line 83), which makes it a local of the inner function, and
\* reads position.id one line earlier (line 82): the read raises
\* UnboundLocalError on every call, before the table is queried.  The
\* exception is not an OperationalError, the retry wrapper passes it on.
update_position_after_partial_exit(tbl, pos_id, closed_qty, tp_level) ==
    [ok |-> FALSE, tbl |-> tbl]

\* a trigger that fires for every pending level
TriggeredLevels_all(info, price) == info.tp_levels

\* price_monitor.py:98-104: the pending levels the price has crossed
TriggeredLevels(info, price) ==
    {l \in info.tp_levels :
        \/ info.side = "buy" /\ price >= l.price
        \/ info.side = "sell" /\ price <= l.price}

\* price_monitor.py:81-150 for one monitored key: the orders it places.
\* The row object the monitor holds belongs to the session of the request
\* that registered it.  Once that session has committed and closed, the
\* object is expired and detached, and reading position.initial_qty (line
\* 108) raises; the exception is caught at line 149 and ends the work on
\* this key.  While the session is open the read succeeds, the order is sent,
\* and update_position_after_partial_exit raises (caught at line 146): the
\* level is not removed and nothing is stored.
MonitorOrders_attached(info, key, price, order_out) ==
    IF IsNone(price) THEN {}
    ELSE {[account |-> key[1], side |-> IF info.side = "buy" THEN "sell" ELSE "buy",
           qty |-> Mul(info.initial_qty, l.percent), reduce_only |-> TRUE,
           level |-> l.name] :
            l \in {t \in TriggeredLevels(info, Val(price)) : order_out = "filled"}}

MonitorOrders(info, key, price, order_out) ==
    IF IsNone(price) \/ ~info.session_open THEN {}
    ELSE {[account |-> key[1], side |-> IF info.side = "buy" THEN "sell" ELSE "buy",
           qty |-> Mul(info.initial_qty, l.percent), reduce_only |-> TRUE,
           level |-> l.name] :
            l \in {t \in TriggeredLevels(info, Val(price)) : order_out = "filled"}}

\* a cycle that ends at the first key whose price is not fetched or whose
\* order is refused
check_prices_stop(mon, tbl, prices, order_out) ==
    LET monitored == {k \in DOMAIN mon : ~IsNone(mon[k])}
        failed == \E k \in monitored : IsNone(prices[k]) \/ order_out[k] = "rejected"
    IN  [mon |-> mon, tbl |-> tbl,
         orders |-> IF failed THEN {}
                    ELSE UNION {MonitorOrders(Val(mon[k]), k, prices[k], order_out[k]) :
                                k \in monitored}]

\* PriceMonitor._check_prices: one cycle over all monitored keys.  A level
\* is taken off the monitor only after the update of the row has returned
\* (price_monitor.py:127-144).
check_prices(mon, tbl, prices, order_out) ==
    LET monitored == {k \in DOMAIN mon : ~IsNone(mon[k])}
        Stored(k) ==
            {l \in TriggeredLevels(Val(mon[k]), Val(prices[k])) :
                /\ Val(mon[k]).session_open
                /\ order_out[k] = "filled"
                /\ update_position_after_partial_exit(
                       tbl, Val(mon[k]).position,
                       Mul(Val(mon[k]).initial_qty, l.percent), l.name).ok}
        Pending(k) ==
            IF IsNone(prices[k]) THEN Val(mon[k]).tp_levels
            ELSE Val(mon[k]).tp_levels \ Stored(k)
    IN  [mon |-> [k \in DOMAIN mon |->
                    IF k \notin monitored THEN mon[k]
                    ELSE IF Pending(k) = {} THEN None
                    ELSE Some([Val(mon[k]) EXCEPT !.tp_levels = Pending(k)])],
         tbl |-> tbl,
         orders |-> UNION {MonitorOrders(Val(mon[k]), k, prices[k], order_out[k]) :
                           k \in monitored}]

----------------------------------------------------------------------------
(* The reconciliation script (sync_positions.py)                           *)

\* ExchangeManager.exchange_configs: the accounts get_exchange_config knows
ExchangeAccounts == DOMAIN account_configs

\* sync_positions.py:47-70: the id is split at underscores and the shortest
\* prefix that names an exchange account is taken as the account
ParsePositionId(id) ==
    LET cuts == {i \in 1..(Len(id) - 1) : SubSeq(id, 1, i) \in ExchangeAccounts} IN
    IF cuts = {} THEN None
    ELSE LET i == CHOOSE c \in cuts : \A d \in cuts : c <= d IN
         Some([account_id |-> SubSeq(id, 1, i), symbol |-> id[i + 1],
               strategy_id |-> SubSeq(id, i + 2, Len(id))])

\* What get_position_info answers for a stored position:
\*   none          the exchange lists no position for the symbol
\*   query_failed  the query raises; get_position_info catches it and
\*                 returns None (exchange_manager.py:362-364)
\*   zero          a position of amount 0
\*   open          a position of a non-zero amount
Snapshots == {"none", "query_failed", "zero", "open"}

\* sync_positions.py:78-98 and 110-129
ForceClose(pos) ==
    LET total_closed == TotalClosed(pos) IN
    [pos EXCEPT !.status = "CLOSED", !.remaining_qty = 0,
                !.other_closed_qty = IF total_closed < pos.initial_qty
                                     THEN @ + (pos.initial_qty - total_closed) ELSE @]

\* sync_positions.py:41-138 for one OPEN row
SyncRow(pos, snapshot) ==
    LET parsed == ParsePositionId(pos.id) IN
    IF IsNone(parsed) \/ Val(parsed).strategy_id = <<>> THEN pos
    ELSE IF snapshot \in {"none", "query_failed", "zero"} THEN ForceClose(pos)
    ELSE pos

\* sync_positions_with_exchange: every OPEN row is checked, then one commit
sync_positions_with_exchange(tbl, snapshot, commit_ok) ==
    IF commit_ok
    THEN {IF r.status = "OPEN" THEN SyncRow(r, snapshot[r.id]) ELSE r : r \in tbl}
    ELSE tbl

----------------------------------------------------------------------------
(* State machine *)

MonitorKeys == {<<a, Symbol>> : a \in AllAccounts}
Prices == {None, Some(90), Some(110)}
\* what the exchange answers to the orders of a cycle, key by key
MonitorOrderOutcomes == [MonitorKeys -> {"filled", "rejected"}]
\* the exchange fills every order of a cycle
AllFilled == [k \in MonitorKeys |-> "filled"]

Workers == {1, 2}

IdleWorker == [pc |-> "idle", req |-> None, held |-> None, sent |-> FALSE, code |-> 0]

\* no wrapper run is followed, and requests are answered one at a time
AuxIdle == retry = None /\ workers = [w \in Workers |-> IdleWorker]

Init ==
    /\ positions = {}
    /\ processed_events = {}
    /\ active_monitors = [k \in MonitorKeys |-> None]
    /\ account_configs = AccountConfigs
    /\ routing_rules = DefaultRoutingRules(AccountConfigs)
    /\ in_flight = None
    /\ AuxIdle

\* POST /webhook
Webhook ==
    \E req \in Requests(processed_events) :
      \E env \in EnvsFor(req, positions, processed_events, active_monitors) :
        LET r == handle_signal(req, env, positions, processed_events, active_monitors)
        IN  /\ positions' = r.tbl
            /\ processed_events' = r.evs
            /\ active_monitors' = r.mon
            /\ UNCHANGED <<config, in_flight, aux>>

\* one cycle of the monitor thread
PriceMonitorCycle ==
    \E prices \in [MonitorKeys -> Prices] : \E order_out \in MonitorOrderOutcomes :
        LET r == check_prices(active_monitors, positions, prices, order_out)
        IN  /\ \A k \in MonitorKeys : IsNone(active_monitors[k]) => IsNone(prices[k])
            /\ positions' = r.tbl
            /\ active_monitors' = r.mon
            /\ UNCHANGED <<processed_events, config, in_flight, aux>>

\* one run of the reconciliation script
SyncPositions ==
    \E snapshot \in [{r.id : r \in {p \in positions : p.status = "OPEN"}} -> Snapshots] :
      \E commit_ok \in BOOLEAN :
        /\ positions' = sync_positions_with_exchange(positions, snapshot, commit_ok)
        /\ UNCHANGED <<processed_events, active_monitors, config, in_flight, aux>>

Next == Webhook \/ PriceMonitorCycle \/ SyncPositions

Spec == Init /\ [][Next]_vars

----------------------------------------------------------------------------
(* The router: the webhook handler under deployments that differ in their  *)
(* account lists and routing rules, for signals with and without an        *)
(* explicit account list.                                                  *)

Strategy == CHOOSE s \in Strategies : TRUE
\* a strategy no routing rule is written for
OtherStrategy == <<"swing">>
\* the strategies and the symbols the router is asked about
RoutedStrategies == {Strategy, OtherStrategy}
RoutedSymbols == {Symbol, "ETHUSDT", "BTC-USD"}
\* the symbols of the signals: a well-formed one and an ill-formed one
SignalSymbols == {Symbol, "BTC-USD"}
RoutedProfiles == {<<>>, <<ACC_A, ACC_B>>, <<ACC_B, ACC_C, ACC_A>>}
RoutedTypes == {"LONG_ENTRY", "TP1_HIT", "STOP"}

\* the deployments: what the environment variables of a deployment load
\* into accounts and routing_rules (account_config.py:26-90)
RoutingConfigs ==
    {[accounts |-> AccountConfigs, rules |-> DefaultRoutingRules(AccountConfigs)],
     \* ACC_B_SYMBOLS_DENYLIST=BTCUSDT
     [accounts |-> [AccountConfigs EXCEPT ![ACC_B].symbols_denylist = {Symbol}],
      rules |-> DefaultRoutingRules(AccountConfigs)],
     \* ACC_A_SYMBOLS_ALLOWLIST=ETHUSDT and a rule of its own for the
     \* strategy, which names an account that is not loaded
     [accounts |-> [AccountConfigs EXCEPT ![ACC_A].symbols_allowlist = {"ETHUSDT"}],
      rules |-> DefaultRoutingRules(AccountConfigs) @@
                (Strategy :> RoutingRule(<<ACC_B, ACC_C, ACC_A>>, {}, {}))],
     \* rules for the strategy with symbol filters of their own
     [accounts |-> AccountConfigs,
      rules |-> DefaultRoutingRules(AccountConfigs) @@
                (Strategy :> RoutingRule(<<ACC_B, ACC_A>>, {}, {Symbol}))],
     [accounts |-> AccountConfigs,
      rules |-> DefaultRoutingRules(AccountConfigs) @@
                (Strategy :> RoutingRule(<<ACC_B>>, {"ETHUSDT", Symbol}, {"ETHUSDT"}))]}

RoutedRequests(evs) ==
    {[BaseRequest(e, t) EXCEPT !.symbol = sym, !.strategy_id = s,
                               !.account_profile = ap] :
        e \in CandidateEventIds(evs) \ evs, t \in RoutedTypes, sym \in SignalSymbols,
        s \in Strategies, ap \in RoutedProfiles}

InitRouting ==
    /\ positions = {}
    /\ processed_events = {}
    /\ active_monitors = [k \in MonitorKeys |-> None]
    /\ \E c \in RoutingConfigs : account_configs = c.accounts /\ routing_rules = c.rules
    /\ in_flight = None
    /\ AuxIdle

\* POST /webhook
WebhookRouted ==
    /\ Cardinality(processed_events) < MaxRoutedEvents
    /\ \E req \in RoutedRequests(processed_events) :
      \E env \in EnvsFor(req, positions, processed_events, active_monitors) :
        LET r == handle_signal(req, env, positions, processed_events, active_monitors)
        IN  /\ positions' = r.tbl
            /\ processed_events' = r.evs
            /\ active_monitors' = r.mon
            /\ UNCHANGED <<config, in_flight, aux>>

NextRouting == WebhookRouted

SpecRouting == InitRouting /\ [][NextRouting]_vars

----------------------------------------------------------------------------
(* The monitor thread beside a request.  The thread runs once a second     *)
(* (price_monitor.py:69-79) whatever the handler does, so a cycle may fall *)
(* between the account loop of a request and the commit and close of its   *)
(* session.  Here a request takes two steps, and a cycle may come between. *)

\* take-profit maps of the entries: levels at 100 and at 110
MonitorTpLevelMaps ==
    {{}, {[name |-> "TP1", price |-> 100, percent |-> 5]},
     {[name |-> "TP1", price |-> 100, percent |-> 5],
      [name |-> "TP2", price |-> 110, percent |-> 5]}}
MonitorTypes == {"LONG_ENTRY", "SHORT_ENTRY", "CLOSE"}

MonitorRequests(evs) ==
    {r \in {[BaseRequest(e, t) EXCEPT !.tp_levels = lv] :
              e \in CandidateEventIds(evs) \ evs, t \in MonitorTypes,
              lv \in MonitorTpLevelMaps} :
       r.event_type \notin EntryTypes => r.tp_levels = {}}

\* POST /webhook up to the commit (main.py:210-706): the orders are sent,
\* create_new_position has committed its row, the monitor holds the row
\* objects of the open session
WebhookBegin ==
    /\ in_flight = None
    /\ \E req \in MonitorRequests(processed_events) :
        \E env \in EnvsFor(req, positions, processed_events, active_monitors) :
          LET r == handle_signal(req, env, positions, processed_events, active_monitors)
          IN  /\ positions' = r.tbl_open
              /\ active_monitors' = r.mon_open
              /\ in_flight' = Some([tbl |-> r.tbl, evs |-> r.evs])
              /\ UNCHANGED <<processed_events, config, aux>>

\* the commit or rollback and the close of the session (main.py:708-734)
WebhookEnd ==
    /\ in_flight # None
    /\ positions' = Val(in_flight).tbl
    /\ processed_events' = Val(in_flight).evs
    /\ active_monitors' = CloseSession(active_monitors)
    /\ in_flight' = None
    /\ UNCHANGED <<config, aux>>

NextMonitor == WebhookBegin \/ WebhookEnd \/ PriceMonitorCycle

SpecMonitor == Init /\ [][NextMonitor]_vars

\* The same with signals that go to two accounts, so that the monitor
\* holds two positions at a time: long entries with levels at 100 and 110,
\* and CLOSE.
PairTpLevelMap ==
    {[name |-> "TP1", price |-> 100, percent |-> 5],
     [name |-> "TP2", price |-> 110, percent |-> 5]}

PairRequests(evs) ==
    {[BaseRequest(e, t) EXCEPT !.account_profile = <<ACC_A, ACC_B>>,
                               !.tp_levels = IF t = "CLOSE" THEN {} ELSE PairTpLevelMap] :
        e \in CandidateEventIds(evs) \ evs, t \in {"LONG_ENTRY", "CLOSE"}}

\* POST /webhook up to the commit, for a signal to two accounts
WebhookBeginPair ==
    /\ in_flight = None
    /\ \E req \in PairRequests(processed_events) :
        \E env \in EnvsFor(req, positions, processed_events, active_monitors) :
          LET r == handle_signal(req, env, positions, processed_events, active_monitors)
          IN  /\ positions' = r.tbl_open
              /\ active_monitors' = r.mon_open
              /\ in_flight' = Some([tbl |-> r.tbl, evs |-> r.evs])
              /\ UNCHANGED <<processed_events, config, aux>>

NextMonitorPair == WebhookBeginPair \/ WebhookEnd \/ PriceMonitorCycle

SpecMonitorPair == Init /\ [][NextMonitorPair]_vars

----------------------------------------------------------------------------
(* Properties.  A property of the webhook handler is stated over every     *)
(* request the signal source may send in a reachable state and every       *)
(* answer the exchange and the database may give to it.                    *)

\* the buckets of a row
Buckets == {"closed_qty_tp1", "closed_qty_tp2", "closed_qty_tp3", "closed_qty_tp4",
            "closed_qty_tp5", "sl_closed_qty", "timeguard_closed_qty",
            "maxbars_closed_qty", "swingtp_closed_qty", "dyn_tp_closed_qty",
            "other_closed_qty"}

\* the bucket the specification assigns to a full-close event
ReasonBucket(event_type) ==
    CASE event_type = "STOP" -> "sl_closed_qty"
      [] event_type = "TIME_GUARD" -> "timeguard_closed_qty"
      [] event_type = "MAX_BARS" -> "maxbars_closed_qty"
      [] event_type = "SWING_TP" -> "swingtp_closed_qty"
      [] event_type = "DYN_TP" -> "dyn_tp_closed_qty"
      [] event_type = "TP5_HIT" -> "closed_qty_tp5"
      [] OTHER -> "other_closed_qty"

\* the accounts a request names
AccountsOf(req) == {req.account_profile[i] : i \in 1..Len(req.account_profile)}

\* the OPEN rows of a key in the current state
OpenRows(acc, sym, strat) ==
    {p \in positions : /\ p.account_id = acc /\ p.symbol = sym
                       /\ p.strategy_id = strat /\ p.status = "OPEN"}

\* the rows of a key in a table
RowsOf(tbl, acc, sym, strat) ==
    {p \in tbl : p.account_id = acc /\ p.symbol = sym /\ p.strategy_id = strat}

\* the orders of an answer that were sent for an account
OrdersOn(r, acc) == {i \in 1..Len(r.orders) : r.orders[i].account = acc}

\* C1: a request that carries an event id already recorded as processed
\* places no order and leaves the positions, the processed events and the
\* monitor as they are; if it carries the passphrase it is answered 409.
C1_Idempotence ==
    \A req \in Requests(processed_events) :
      \A env \in EnvsFor(req, positions, processed_events, active_monitors) :
        LET r == handle_signal(req, env, positions, processed_events, active_monitors)
        IN  req.event_id \in processed_events =>
              /\ req.passphrase_ok => r.status_code = 409
              /\ r.status_code \in {401, 409}
              /\ r.orders = <<>>
              /\ r.tbl = positions
              /\ r.evs = processed_events
              /\ r.mon = active_monitors

\* C1 witness: an exit signal is sent again with its recorded event id while
\* the position it would act on is OPEN with quantity left, and is refused.
C1_Witness ==
    \E req \in Requests(processed_events) :
        /\ req.event_id \in processed_events
        /\ req.passphrase_ok
        /\ req.event_type \in FullCloseTypes
        /\ \E p \in positions : /\ p.status = "OPEN" /\ p.remaining_qty > 0
                                /\ p \in OpenRows(ACC_A, req.symbol, req.strategy_id)
        /\ handle_signal(req, QuietEnv, positions, processed_events,
                         active_monitors).status_code = 409

\* C2: what a request stores of its positions and its ProcessedEvent record
\* is stored together: no answer leaves a change of the positions table
\* stored without the event id recorded, and none records the event id
\* without the changes the handler made to its rows.
C2_AtomicCommit ==
    \A req \in Requests(processed_events) :
      \A env \in EnvsFor(req, positions, processed_events, active_monitors) :
        LET r == handle_signal(req, env, positions, processed_events, active_monitors)
        IN  /\ r.tbl # positions => req.event_id \in r.evs
            /\ req.event_id \in r.evs \ processed_events => ~r.lost

\* C3: remaining_qty plus the sum of the buckets is initial_qty, for every
\* row in every reachable state.
C3_Conservation ==
    \A p \in positions : p.remaining_qty + TotalClosed(p) = p.initial_qty

\* C4: a full-close event whose order succeeds on an OPEN position with
\* quantity left leaves the stored row with remaining_qty 0 and status
\* CLOSED, for each of the seven event types.
C4_FullCloseCloses ==
    \A req \in Requests(processed_events) :
      \A env \in EnvsFor(req, positions, processed_events, active_monitors) :
        LET r == handle_signal(req, env, positions, processed_events, active_monitors)
        IN  \A acc \in AccountsOf(req) :
              \A p \in OpenRows(acc, req.symbol, req.strategy_id) :
                (/\ req.event_type \in FullCloseTypes
                 /\ p.remaining_qty > 0
                 /\ r.status_code = 200
                 /\ r.results[acc].status = "success")
                => \A q \in RowsOf(r.tbl, acc, req.symbol, req.strategy_id) :
                      q.remaining_qty = 0 /\ q.status = "CLOSED"

\* C5: a successful full-close event adds the quantity that was remaining
\* before it to the bucket of its exit reason and changes no other bucket.
C5_FullCloseCredit ==
    \A req \in Requests(processed_events) :
      \A env \in EnvsFor(req, positions, processed_events, active_monitors) :
        LET r == handle_signal(req, env, positions, processed_events, active_monitors)
        IN  \A acc \in AccountsOf(req) :
              \A p \in OpenRows(acc, req.symbol, req.strategy_id) :
                (/\ req.event_type \in FullCloseTypes
                 /\ p.remaining_qty > 0
                 /\ r.status_code = 200
                 /\ r.results[acc].status = "success")
                => \A q \in RowsOf(r.tbl, acc, req.symbol, req.strategy_id) : \A b \in Buckets :
                      q[b] = IF b = ReasonBucket(req.event_type)
                             THEN p[b] + p.remaining_qty ELSE p[b]

\* C6: a row is OPEN only while it has quantity left.
C6_OpenHasRemaining ==
    \A p \in positions : p.status = "OPEN" => p.remaining_qty > 0

\* C7: an entry signal for a key whose position is OPEN sends no order for
\* the account, leaves the row as it is and reports a warning for the
\* account.
C7_NoPyramiding ==
    \A req \in Requests(processed_events) :
      \A env \in EnvsFor(req, positions, processed_events, active_monitors) :
        LET r == handle_signal(req, env, positions, processed_events, active_monitors)
        IN  \A acc \in AccountsOf(req) :
              (/\ req.event_type \in EntryTypes
               /\ r.status_code \in {200, 500}
               /\ OpenRows(acc, req.symbol, req.strategy_id) # {})
              => /\ OrdersOn(r, acc) = {}
                 /\ RowsOf(r.tbl, acc, req.symbol, req.strategy_id)
                      = RowsOf(positions, acc, req.symbol, req.strategy_id)
                 /\ r.results[acc].status = "warning"

\* C7 witness: an entry signal with a new event id arrives for a key whose
\* position is OPEN and is answered with a warning for the account.
C7_Witness ==
    \E req \in Requests(processed_events) :
        /\ req.event_type \in EntryTypes
        /\ req.event_id \notin processed_events
        /\ OpenRows(ACC_A, req.symbol, req.strategy_id) # {}
        /\ LET r == handle_signal(req, QuietEnv, positions, processed_events,
                                  active_monitors)
           IN  r.status_code = 200 /\ r.results[ACC_A].status = "warning"

\* C8: no two OPEN rows share (account_id, symbol, strategy_id).
C8_OneOpenPerKey ==
    \A p \in positions : \A q \in positions :
        (/\ p.status = "OPEN" /\ q.status = "OPEN"
         /\ p.account_id = q.account_id
         /\ p.symbol = q.symbol
         /\ p.strategy_id = q.strategy_id)
        => p = q

\* C8 witness: a row that was closed and opened again by a later entry is
\* the one OPEN row of its key (its buckets are from its first life).
C8_Witness ==
    \E p \in positions :
        /\ p.status = "OPEN"
        /\ p.remaining_qty = p.initial_qty
        /\ TotalClosed(p) > 0
        /\ Cardinality({q \in positions : q.account_id = p.account_id
                                          /\ q.symbol = p.symbol
                                          /\ q.strategy_id = p.strategy_id}) = 1

\* C9: from one state to the next no row's tp_level and no row's bucket
\* gets smaller, and no row is removed.
C9_Monotonic ==
    [][\A p \in positions : \E q \in positions' :
          /\ q.id = p.id
          /\ q.tp_level >= p.tp_level
          /\ \A b \in Buckets : q[b] >= p[b]]_vars

\* C9 witness: a row with a tp_level and a bucket from before was closed and
\* then opened again by an entry.
C9_Witness ==
    \E p \in positions :
        /\ p.status = "OPEN"
        /\ p.remaining_qty = p.initial_qty
        /\ p.tp_level > 0
        /\ p.closed_qty_tp1 + p.closed_qty_tp2 > 0

\* C10: remaining_qty is never negative.
C10_RemainingNonNegative ==
    \A p \in positions : p.remaining_qty >= 0

\* the bucket of take-profit tier n
TpBucket(n) ==
    CASE n = 1 -> "closed_qty_tp1" [] n = 2 -> "closed_qty_tp2"
      [] n = 3 -> "closed_qty_tp3" [] n = 4 -> "closed_qty_tp4"
      [] OTHER -> "closed_qty_tp5"

\* the fraction a partial-exit signal asks for: its own, or the default 0.2
FractionOf(req) ==
    IF IsNone(req.tp_percentage) THEN DefaultTpFraction ELSE Val(req.tp_percentage)

\* a successful TPn_HIT (n in 1..4) on an OPEN row p with quantity left has
\* closed the quantity cq: remaining_qty is down by cq, the bucket of tier n
\* is up by cq, no other bucket changed, tp_level is max(old, n), the order
\* id is appended, the status is as it was
PartialExitBy(p, q, n, cq) ==
    /\ q.remaining_qty = p.remaining_qty - cq
    /\ \A b \in Buckets : q[b] = IF b = TpBucket(n) THEN p[b] + cq ELSE p[b]
    /\ q.tp_level = Max(p.tp_level, n)
    /\ q.order_ids = Append(p.order_ids, OrderId)
    /\ q.status = p.status

\* C11 (amended): a successful TPn_HIT on an OPEN position with quantity
\* left closes max(0.000001, min(initial_qty * fraction, remaining_qty)):
\* the lower bound 0.000001 applies.
C11_PartialExit ==
    \A req \in Requests(processed_events) :
      \A env \in EnvsFor(req, positions, processed_events, active_monitors) :
        LET r == handle_signal(req, env, positions, processed_events, active_monitors)
        IN  \A acc \in AccountsOf(req) :
              \A p \in OpenRows(acc, req.symbol, req.strategy_id) :
                (/\ req.event_type \in PartialTypes
                 /\ p.remaining_qty > 0
                 /\ r.status_code = 200
                 /\ r.results[acc].status = "success")
                => \A q \in RowsOf(r.tbl, acc, req.symbol, req.strategy_id) :
                      PartialExitBy(p, q, TpLevelOf(req.event_type),
                                    Max(MinCloseQty,
                                        Min(Mul(p.initial_qty, FractionOf(req)),
                                            p.remaining_qty)))

\* C11 as stated: a successful TPn_HIT on an OPEN position with quantity left
\* closes min(initial_qty * fraction, remaining_qty).
C11_PartialExitMin ==
    \A req \in Requests(processed_events) :
      \A env \in EnvsFor(req, positions, processed_events, active_monitors) :
        LET r == handle_signal(req, env, positions, processed_events, active_monitors)
        IN  \A acc \in AccountsOf(req) :
              \A p \in OpenRows(acc, req.symbol, req.strategy_id) :
                (/\ req.event_type \in PartialTypes
                 /\ p.remaining_qty > 0
                 /\ r.status_code = 200
                 /\ r.results[acc].status = "success")
                => \A q \in RowsOf(r.tbl, acc, req.symbol, req.strategy_id) :
                      PartialExitBy(p, q, TpLevelOf(req.event_type),
                                    Min(Mul(p.initial_qty, FractionOf(req)),
                                        p.remaining_qty))

\* C11 witness: a TP1_HIT at the default fraction arrives for an OPEN
\* position with a tp_level above 1 and is filled.
C11_Witness ==
    \E req \in Requests(processed_events) :
        /\ req.event_type = "TP1_HIT"
        /\ IsNone(req.tp_percentage)
        /\ \E p \in OpenRows(ACC_A, req.symbol, req.strategy_id) :
              p.remaining_qty > 0 /\ p.tp_level = 2
        /\ LET r == handle_signal(req, QuietEnv, positions, processed_events,
                                  active_monitors)
           IN  r.status_code = 200 /\ r.results[ACC_A].status = "success"

\* the handler processes an account for a symbol and a strategy: the
\* account is loaded and the symbol passes the filters
Processed(acc, sym, strat) ==
    /\ ~IsNone(get_account_config(acc))
    /\ is_symbol_allowed(acc, sym)
    /\ is_symbol_allowed_for_strategy(sym, strat, acc)

\* C12: an exit event for an account the handler processes whose key has no
\* row, or only a CLOSED row, reports a warning for the account, sends no
\* order for it and leaves the rows of the key as they are.
C12_ExitWithoutOpen ==
    \A req \in Requests(processed_events) :
      \A env \in EnvsFor(req, positions, processed_events, active_monitors) :
        LET r == handle_signal(req, env, positions, processed_events, active_monitors)
        IN  \A acc \in AccountsOf(req) :
              (/\ req.event_type \in PartialTypes \cup FullCloseTypes
               /\ r.status_code \in {200, 500}
               /\ Processed(acc, req.symbol, req.strategy_id)
               /\ OpenRows(acc, req.symbol, req.strategy_id) = {})
              => /\ r.results[acc].status = "warning"
                 /\ OrdersOn(r, acc) = {}
                 /\ RowsOf(r.tbl, acc, req.symbol, req.strategy_id)
                      = RowsOf(positions, acc, req.symbol, req.strategy_id)

\* C12 witness: a take-profit signal with a new event id arrives for a key
\* whose only row is CLOSED, and is answered with a warning.
C12_Witness ==
    \E req \in Requests(processed_events) :
        /\ req.event_type \in PartialTypes
        /\ req.event_id \notin processed_events
        /\ \E p \in RowsOf(positions, ACC_A, req.symbol, req.strategy_id) :
              p.status = "CLOSED"
        /\ OpenRows(ACC_A, req.symbol, req.strategy_id) = {}
        /\ LET r == handle_signal(req, QuietEnv, positions, processed_events,
                                  active_monitors)
           IN  r.status_code = 200 /\ r.results[ACC_A].status = "warning"

\* the accounts a signal is sent to: its explicit list, or else what the
\* router returns
Targeted(req) ==
    LET l == IF req.account_profile # <<>> THEN req.account_profile
             ELSE get_accounts_for_strategy(req.strategy_id, req.symbol)
    IN  {l[i] : i \in 1..Len(l)}

\* the exchange refuses the order the handler sends for an account
ExchangeFails(r, env, acc) == r.attempts[acc] # "none" /\ env.order[acc] = "rejected"

\* the exchange fills the order the handler sends for an account, and the
\* database stores what the handler inserts
ExchangeFills(r, env, acc) ==
    /\ r.attempts[acc] # "none" /\ env.order[acc] = "filled"
    /\ r.inserting => env.insert_ok

\* C13: when a signal goes to several accounts and the exchange refuses the
\* order of one of them, the request is still answered "processed" and its
\* event is recorded; the refused account has an error outcome and its rows
\* are as before; every other account the handler processes has an outcome
\* of its own, whether it comes before or after the refused one, and an
\* account whose order is filled has a success outcome and its changed rows
\* are in the committed table.
C13_FanoutIsolation ==
    \A req \in RoutedRequests(processed_events) :
      \A env \in EnvsFor(req, positions, processed_events, active_monitors) :
        LET r == handle_signal(req, env, positions, processed_events, active_monitors)
            procd == {a \in Targeted(req) : Processed(a, req.symbol, req.strategy_id)}
            failed == {a \in procd : ExchangeFails(r, env, a)}
        IN  (failed # {} /\ env.commit_ok)
            => /\ r.status_code = 200
               /\ req.event_id \in r.evs
               /\ ~r.lost
               /\ \A a \in failed :
                     /\ r.results[a].status = "error"
                     /\ RowsOf(r.tbl, a, req.symbol, req.strategy_id)
                          = RowsOf(positions, a, req.symbol, req.strategy_id)
               /\ \A b \in procd \ failed :
                     /\ r.results[b] # NoResult
                     /\ ExchangeFills(r, env, b)
                          => /\ r.results[b].status = "success"
                             /\ OrdersOn(r, b) # {}
                             /\ RowsOf(r.tbl, b, req.symbol, req.strategy_id)
                                  # RowsOf(positions, b, req.symbol, req.strategy_id)

\* C13 witness: ACC_A and ACC_B both hold an OPEN position, a STOP goes to
\* both, the exchange refuses the order of the first and fills the order of
\* the second: the first has an error, the second a success.
C13_Witness ==
    \E req \in RoutedRequests(processed_events) :
      \E env \in EnvsFor(req, positions, processed_events, active_monitors) :
        LET r == handle_signal(req, env, positions, processed_events, active_monitors)
        IN  /\ req.event_type = "STOP" /\ req.account_profile = <<ACC_A, ACC_B>>
            /\ OpenRows(ACC_A, req.symbol, req.strategy_id) # {}
            /\ OpenRows(ACC_B, req.symbol, req.strategy_id) # {}
            /\ env.order[ACC_A] = "rejected" /\ env.order[ACC_B] = "filled"
            /\ env.commit_ok
            /\ r.status_code = 200
            /\ r.results[ACC_A].status = "error"
            /\ r.results[ACC_B].status = "success"

\* the accounts of an answer that have an outcome
WithOutcome(r) == {a \in AllAccounts : r.results[a] # NoResult}

\* C14: when every account of a signal that has an outcome has an error
\* outcome, the request is answered with 500, its event id is not recorded
\* and the table is as before; when some account has a success or a
\* warning outcome and the commit succeeds, the request is answered with
\* 200 and its event id is recorded.
C14_AllFailedRollsBack ==
    \A req \in Requests(processed_events) :
      \A env \in EnvsFor(req, positions, processed_events, active_monitors) :
        LET r == handle_signal(req, env, positions, processed_events, active_monitors)
        IN  /\ (/\ WithOutcome(r) # {}
                /\ \A a \in WithOutcome(r) : r.results[a].status = "error")
               => /\ r.status_code = 500
                  /\ req.event_id \notin r.evs
                  /\ r.tbl = positions
            /\ (/\ \E a \in WithOutcome(r) : r.results[a].status \in {"success", "warning"}
                /\ env.commit_ok)
               => /\ r.status_code = 200
                  /\ req.event_id \in r.evs

\* the status a request must be refused with, 200 if with none: 401 for a
\* wrong passphrase, 400 for a missing event_id, 409 for an event_id that
\* is recorded, 400 for a missing event_type or symbol
Refusal(req) ==
    IF ~req.passphrase_ok THEN 401
    ELSE IF req.event_id = 0 THEN 400
    ELSE IF req.event_id \in processed_events THEN 409
    ELSE IF req.event_type = "" \/ req.symbol = "" THEN 400
    ELSE 200

\* C15: a request with a wrong passphrase, without event_id, event_type or
\* symbol, or with a recorded event_id is answered with 401, 400 or 409 and
\* changes nothing: no event is recorded, no order is sent, no account has
\* an outcome, and the positions and the monitor are as before.
C15_RejectedBeforeMutation ==
    \A req \in Requests(processed_events) :
      \A env \in EnvsFor(req, positions, processed_events, active_monitors) :
        LET r == handle_signal(req, env, positions, processed_events, active_monitors)
        IN  Refusal(req) # 200
            => /\ r.status_code = Refusal(req)
               /\ r.evs = processed_events
               /\ r.orders = <<>>
               /\ r.attempts = NoAttempts
               /\ r.results = NoResults
               /\ r.tbl = positions
               /\ r.mon = active_monitors

\* C15 witness: while ACC_A holds an OPEN position, a STOP for it arrives
\* with a wrong passphrase and a new event id and is answered with 401,
\* and one arrives without a symbol and is answered with 400.
C15_Witness ==
    /\ OpenRows(ACC_A, Symbol, Strategy) # {}
    /\ \E req \in Requests(processed_events) :
          /\ ~req.passphrase_ok /\ req.event_id \notin processed_events
          /\ req.event_id # 0 /\ req.event_type = "STOP"
          /\ handle_signal(req, QuietEnv, positions, processed_events,
                           active_monitors).status_code = 401
    /\ \E req \in Requests(processed_events) :
          /\ req.passphrase_ok /\ req.symbol = "" /\ req.event_id \notin processed_events
          /\ handle_signal(req, QuietEnv, positions, processed_events,
                           active_monitors).status_code = 400

\* a symbol of six or more capital letters
WellFormed(sym) ==
    /\ Len(SymbolChars[sym]) >= 6
    /\ \A i \in 1..Len(SymbolChars[sym]) : SymbolChars[sym][i] \in UpperCase

\* the account is configured and enabled, and its allow and deny lists let
\* the symbol pass
AccountAdmits(acc, sym) ==
    /\ acc \in DOMAIN account_configs
    /\ account_configs[acc].enabled
    /\ sym \notin account_configs[acc].symbols_denylist
    /\ account_configs[acc].symbols_allowlist # {}
          => sym \in account_configs[acc].symbols_allowlist

\* the allow and deny lists of the strategy let the symbol pass
StrategyAdmits(strat, sym) ==
    /\ (strat \in DOMAIN strategy_allowlists /\ strategy_allowlists[strat] # {})
          => sym \in strategy_allowlists[strat]
    /\ strat \in DOMAIN strategy_denylists => sym \notin strategy_denylists[strat]

\* the accounts of the orders of an answer, in the order they were sent
OrderAccounts(r) == [i \in 1..Len(r.orders) |-> r.orders[i].account]

\* C16: for a signal with a non-empty explicit account list the routing
\* rules are not consulted; the accounts that get an outcome are the listed
\* accounts that are configured and enabled and whose account-level and
\* strategy-level lists admit the symbol, the symbol being well formed; a
\* listed account that fails one of these gets no outcome and no order; the
\* orders are sent in the order of the list.
C16_ExplicitList ==
    \A req \in RoutedRequests(processed_events) :
      \A env \in EnvsFor(req, positions, processed_events, active_monitors) :
        LET r == handle_signal(req, env, positions, processed_events, active_monitors)
        IN  req.account_profile # <<>>
            => /\ WithOutcome(r)
                    = {a \in AccountsOf(req) :
                          /\ AccountAdmits(a, req.symbol)
                          /\ StrategyAdmits(req.strategy_id, req.symbol)
                          /\ WellFormed(req.symbol)}
               /\ \A a \in AllAccounts \ WithOutcome(r) : OrdersOn(r, a) = {}
               /\ OrderAccounts(r)
                    = SelectSeq(req.account_profile, LAMBDA a : OrdersOn(r, a) # {})

\* C16 as it is worded: every account of a non-empty explicit account list
\* gets an outcome, none is dropped by a filter.
C16_ListVerbatim ==
    \A req \in RoutedRequests(processed_events) :
      \A env \in EnvsFor(req, positions, processed_events, active_monitors) :
        LET r == handle_signal(req, env, positions, processed_events, active_monitors)
        IN  (req.account_profile # <<>> /\ WellFormed(req.symbol))
            => WithOutcome(r) = AccountsOf(req)

\* C16 witness: the deny list of ACC_B holds the symbol of an entry signal
\* that lists ACC_A and ACC_B: ACC_A gets a success and an order, ACC_B
\* neither an outcome nor an order.
C16_Witness ==
    /\ \E req \in RoutedRequests(processed_events) :
          LET r == handle_signal(req, QuietEnv, positions, processed_events,
                                 active_monitors)
          IN  /\ req.account_profile = <<ACC_A, ACC_B>> /\ req.symbol = Symbol
              /\ req.event_type = "LONG_ENTRY"
              /\ ~AccountAdmits(ACC_B, Symbol)
              /\ r.results[ACC_A].status = "success" /\ OrdersOn(r, ACC_A) # {}
              /\ r.results[ACC_B] = NoResult /\ OrdersOn(r, ACC_B) = {}

\* the routing rule that applies to a strategy: its own, or else the rule
\* named default
RuleOf(strat) ==
    IF strat \in DOMAIN routing_rules THEN routing_rules[strat]
    ELSE routing_rules[DefaultRule]

\* the symbol filters of a routing rule let the symbol pass
RuleAdmits(rule, sym) ==
    /\ rule.allowed_symbols # {} => sym \in rule.allowed_symbols
    /\ sym \notin rule.denied_symbols

\* C17: without an explicit account list the router returns, in the order
\* of the account list of the strategy's rule (the default rule for a
\* strategy without one), exactly the accounts of that list that are
\* configured and enabled and whose account-level lists and the rule's own
\* symbol filters admit the symbol; of these the handler processes the
\* ones for which the symbol is well formed and admitted by the
\* strategy-level lists, in the same order; every other account gets no
\* outcome and no order, and the answer is still "processed".
C17_Routing ==
    /\ \A strat \in RoutedStrategies : \A sym \in RoutedSymbols :
          get_accounts_for_strategy(strat, sym)
            = SelectSeq(RuleOf(strat).accounts,
                        LAMBDA a : AccountAdmits(a, sym) /\ RuleAdmits(RuleOf(strat), sym))
    /\ \A req \in RoutedRequests(processed_events) :
        \A env \in EnvsFor(req, positions, processed_events, active_monitors) :
          LET r == handle_signal(req, env, positions, processed_events, active_monitors)
              rule == RuleOf(req.strategy_id)
          IN  req.account_profile = <<>>
              => /\ WithOutcome(r)
                      = {a \in {rule.accounts[i] : i \in 1..Len(rule.accounts)} :
                            /\ AccountAdmits(a, req.symbol)
                            /\ RuleAdmits(rule, req.symbol)
                            /\ StrategyAdmits(req.strategy_id, req.symbol)
                            /\ WellFormed(req.symbol)}
                 /\ \A a \in AllAccounts \ WithOutcome(r) : OrdersOn(r, a) = {}
                 /\ OrderAccounts(r)
                      = SelectSeq(rule.accounts, LAMBDA a : OrdersOn(r, a) # {})
                 /\ env.commit_ok => r.status_code = 200

\* C17 as it is worded: the router returns exactly the accounts of the rule
\* that are configured and enabled and that the account-level and the
\* strategy-level lists admit.
C17_RoutingByLists ==
    \A strat \in RoutedStrategies : \A sym \in RoutedSymbols :
        get_accounts_for_strategy(strat, sym)
          = SelectSeq(RuleOf(strat).accounts,
                      LAMBDA a : AccountAdmits(a, sym) /\ StrategyAdmits(strat, sym))

\* C17 witness: the strategy has a rule of its own that lists ACC_B, the
\* unconfigured ACC_C and ACC_A, whose allow list does not hold the symbol;
\* an entry signal without account list is routed to ACC_B alone, which
\* gets a success, and is answered "processed".
C17_Witness ==
    /\ Strategy \in DOMAIN routing_rules
    /\ routing_rules[Strategy].accounts = <<ACC_B, ACC_C, ACC_A>>
    /\ ~AccountAdmits(ACC_A, Symbol)
    /\ get_accounts_for_strategy(Strategy, Symbol) = <<ACC_B>>
    /\ \E req \in RoutedRequests(processed_events) :
          LET r == handle_signal(req, QuietEnv, positions, processed_events,
                                 active_monitors)
          IN  /\ req.account_profile = <<>> /\ req.symbol = Symbol
              /\ req.strategy_id = Strategy /\ req.event_type = "LONG_ENTRY"
              /\ r.status_code = 200
              /\ r.results[ACC_B].status = "success"
              /\ r.results[ACC_A] = NoResult /\ r.results[ACC_C] = NoResult

\* C18: an entry whose order is filled but whose price is given neither by
\* the order response nor by the last-price query has an error outcome for
\* the account; the rows of the key are as before (none is created, a
\* CLOSED row keeps every field) and the monitor holds what it held.
C18_NoPriceNoState ==
    \A req \in Requests(processed_events) :
      \A env \in EnvsFor(req, positions, processed_events, active_monitors) :
        LET r == handle_signal(req, env, positions, processed_events, active_monitors)
        IN  \A acc \in AccountsOf(req) :
              (/\ req.event_type \in EntryTypes
               /\ r.attempts[acc] = "entry"
               /\ env.order[acc] = "filled_no_price")
              => /\ r.results[acc].status = "error"
                 /\ RowsOf(r.tbl, acc, req.symbol, req.strategy_id)
                      = RowsOf(positions, acc, req.symbol, req.strategy_id)
                 /\ r.mon = active_monitors

\* C18 witness: the key of ACC_A has a CLOSED row, an entry with
\* take-profit levels arrives, its order is filled without a price and no
\* last price is available: the outcome is an error.
C18_Witness ==
    \E req \in Requests(processed_events) :
      \E env \in EnvsFor(req, positions, processed_events, active_monitors) :
        LET r == handle_signal(req, env, positions, processed_events, active_monitors)
        IN  /\ req.event_type \in EntryTypes /\ req.tp_levels # {}
            /\ \E p \in RowsOf(positions, ACC_A, req.symbol, req.strategy_id) :
                  p.status = "CLOSED"
            /\ env.order[ACC_A] = "filled_no_price"
            /\ r.attempts[ACC_A] = "entry"
            /\ r.results[ACC_A].status = "error"

\* the quantity an entry signal asks for on an account: its own, or else
\* the position size of the account
EntryQty(req, acc) ==
    IF IsNone(req.quantity) THEN account_configs[acc].position_size
    ELSE Val(req.quantity)

\* C19: a successful entry for a key whose row is CLOSED leaves the key
\* with that one row: it is OPEN, initial_qty and remaining_qty are the
\* quantity of the entry, which is the quantity of the order, side and
\* entry price are those of the entry, and every closed-quantity bucket
\* and tp_level are what they were.
C19_ReopenReusesRow ==
    \A req \in Requests(processed_events) :
      \A env \in EnvsFor(req, positions, processed_events, active_monitors) :
        LET r == handle_signal(req, env, positions, processed_events, active_monitors)
        IN  \A acc \in AccountsOf(req) :
              \A p \in RowsOf(positions, acc, req.symbol, req.strategy_id) :
                (/\ req.event_type \in EntryTypes
                 /\ p.status = "CLOSED"
                 /\ r.status_code = 200
                 /\ r.results[acc].status = "success")
                => /\ Cardinality(RowsOf(r.tbl, acc, req.symbol, req.strategy_id)) = 1
                   /\ \A q \in RowsOf(r.tbl, acc, req.symbol, req.strategy_id) :
                         /\ q.id = p.id
                         /\ q.status = "OPEN"
                         /\ q.initial_qty = EntryQty(req, acc)
                         /\ q.remaining_qty = EntryQty(req, acc)
                         /\ \A i \in OrdersOn(r, acc) : r.orders[i].qty = q.initial_qty
                         /\ q.side = (IF req.event_type = "LONG_ENTRY" THEN "buy" ELSE "sell")
                         /\ q.entry_price = FillPrice
                         /\ \A b \in Buckets : q[b] = p[b]
                         /\ q.tp_level = p.tp_level

\* C19 witness: the row of ACC_A is CLOSED with a filled bucket and a
\* watermark above 0, and an entry of another quantity for its key
\* succeeds.
C19_Witness ==
    \E req \in Requests(processed_events) :
      \E p \in RowsOf(positions, ACC_A, req.symbol, req.strategy_id) :
        LET r == handle_signal(req, QuietEnv, positions, processed_events, active_monitors)
        IN  /\ req.event_type \in EntryTypes
            /\ p.status = "CLOSED" /\ p.tp_level > 0 /\ TotalClosed(p) > 0
            /\ EntryQty(req, ACC_A) # p.initial_qty
            /\ r.status_code = 200
            /\ r.results[ACC_A].status = "success"

\* the price has crossed a level of a position of the given side
Crossed(side, price, level) ==
    \/ side = "buy" /\ price >= level.price
    \/ side = "sell" /\ price <= level.price

\* C20: every order a cycle of the monitor places is for a monitored key
\* whose price was fetched and for a pending level of that key the price
\* has crossed: at or above the level for a buy position, at or below it
\* for a sell position.
C20_OrdersOnlyWhenCrossed ==
    \A prices \in [MonitorKeys -> Prices] : \A order_out \in MonitorOrderOutcomes :
        LET r == check_prices(active_monitors, positions, prices, order_out)
        IN  \A o \in r.orders :
              LET k == <<o.account, Symbol>> IN
              /\ ~IsNone(active_monitors[k])
              /\ ~IsNone(prices[k])
              /\ \E l \in Val(active_monitors[k]).tp_levels :
                    /\ l.name = o.level
                    /\ Crossed(Val(active_monitors[k]).side, Val(prices[k]), l)

\* C20 witness: the monitor holds a sell position of ACC_A with pending
\* levels at 100 and at 110 while the session of its entry is open, and
\* the price is 110: the cycle places an order for the level at 110 and
\* none for the level at 100; with a price that is not fetched it places
\* none.
C20_Witness ==
    LET k == <<ACC_A, Symbol>> IN
    /\ ~IsNone(active_monitors[k])
    /\ Val(active_monitors[k]).side = "sell"
    /\ {l.price : l \in Val(active_monitors[k]).tp_levels} = {100, 110}
    /\ {o.level : o \in check_prices(active_monitors, positions,
                                     [j \in MonitorKeys |->
                                        IF j = k THEN Some(110) ELSE None],
                                     AllFilled).orders} = {"TP2"}
    /\ check_prices(active_monitors, positions, [j \in MonitorKeys |-> None],
                    AllFilled).orders = {}

\* the tier of a level: 1 for "TP1", 2 for "TP2"
LevelTier(name) == IF name = "TP1" THEN 1 ELSE 2

\* the stored row a monitor entry refers to
StoredRow(tbl, info) == {p \in tbl : p.id = info.position}

\* C21: when the price of a monitored key is fetched and has crossed a
\* pending level, and the stored position of the key is OPEN, the cycle
\* places exactly one order for the level, reduce-only, for initial_qty
\* times the fraction of the level, on the side opposite to the position;
\* the stored remaining_qty goes down by that quantity, the bucket of the
\* tier goes up by it, and the level is no longer pending.
C21_MonitorExit ==
    \A prices \in [MonitorKeys -> Prices] :
      LET r == check_prices(active_monitors, positions, prices, AllFilled) IN
      \A k \in MonitorKeys :
        (~IsNone(active_monitors[k]) /\ ~IsNone(prices[k]))
        => LET info == Val(active_monitors[k]) IN
           \A l \in info.tp_levels : \A p \in StoredRow(positions, info) :
             (p.status = "OPEN" /\ Crossed(info.side, Val(prices[k]), l))
             => LET q == Mul(p.initial_qty, l.percent)
                    b == TpBucket(LevelTier(l.name))
                IN  /\ Cardinality({o \in r.orders :
                                       o.account = k[1] /\ o.level = l.name}) = 1
                    /\ \A o \in r.orders :
                          (o.account = k[1] /\ o.level = l.name)
                          => /\ o.qty = q /\ o.reduce_only
                             /\ o.side = (IF info.side = "buy" THEN "sell" ELSE "buy")
                    /\ \E p2 \in StoredRow(r.tbl, info) :
                          /\ p2.remaining_qty = p.remaining_qty - q
                          /\ p2[b] = p[b] + q
                    /\ \/ IsNone(r.mon[k])
                       \/ l \notin Val(r.mon[k]).tp_levels

\* the orders of a cycle for one key
OrdersFor(r, k) == {o \in r.orders : o.account = k[1]}

\* every price is fetched and is 110
AllAt110 == [k \in MonitorKeys |-> Some(110)]

\* C22: when in a cycle the price of a monitored key is not fetched or its
\* order is refused, the key is monitored after the cycle with the levels
\* it had; every other monitored key is monitored as it would be and gets
\* the orders it would get had the first key not failed; and the cycle
\* after it treats the failed key as a cycle in its place would have.
C22_MonitorFailureIsolated ==
    \A prices \in [MonitorKeys -> Prices] : \A order_out \in MonitorOrderOutcomes :
      LET r == check_prices(active_monitors, positions, prices, order_out) IN
      \A k \in MonitorKeys :
        (/\ ~IsNone(active_monitors[k])
         /\ IsNone(prices[k]) \/ order_out[k] = "rejected")
        => /\ r.mon[k] = active_monitors[k]
           /\ \A j \in MonitorKeys \ {k} :
                 LET ok == check_prices(active_monitors, positions,
                                        [prices EXCEPT ![k] = Some(110)],
                                        [order_out EXCEPT ![k] = "filled"])
                 IN  /\ OrdersFor(r, j) = OrdersFor(ok, j)
                     /\ r.mon[j] = ok.mon[j]
                     /\ ~IsNone(active_monitors[j]) => ~IsNone(r.mon[j])
           /\ OrdersFor(check_prices(r.mon, r.tbl, AllAt110, AllFilled), k)
                = OrdersFor(check_prices(active_monitors, positions, AllAt110, AllFilled), k)

\* C22 witness: the monitor holds the positions of ACC_A and ACC_B while
\* the session of their entry is open; the price of ACC_A is not fetched
\* and the price of ACC_B is 110: ACC_B gets its orders, ACC_A is still
\* monitored, and gets its orders in the cycle after.
C22_Witness ==
    LET a == <<ACC_A, Symbol>>
        b == <<ACC_B, Symbol>>
        r == check_prices(active_monitors, positions,
                          [k \in MonitorKeys |-> IF k = b THEN Some(110) ELSE None],
                          AllFilled)
    IN  /\ ~IsNone(active_monitors[a]) /\ ~IsNone(active_monitors[b])
        /\ OrdersFor(r, a) = {}
        /\ OrdersFor(r, b) # {}
        /\ r.mon[a] = active_monitors[a]
        /\ OrdersFor(check_prices(r.mon, r.tbl, AllAt110, AllFilled), a) # {}

\* ---------------------------------------------------------------------------
\* The retry wrappers (main.py:41-58, position_manager.py:11-28)
\* ---------------------------------------------------------------------------

\* times in units of 1/640 s, so that 0.1 s and its multiples by 2.5 are whole
InitialDelay == 64

max_retries == 7

\* str.lower(), word by word, on the words the error messages are made of
LowerWord(w) ==
    CASE w = "Database" -> "database"
      [] w = "Locked" -> "locked"
      [] w = "Lock" -> "lock"
      [] w = "Deadlock" -> "deadlock"
      [] w = "Too" -> "too"
      [] w = "(sqlite3.OperationalError)" -> "(sqlite3.operationalerror)"
      [] w = "(pymysql.err.OperationalError)" -> "(pymysql.err.operationalerror)"
      [] w = "(psycopg2.errors.DeadlockDetected)" -> "(psycopg2.errors.deadlockdetected)"
      [] OTHER -> w

Lower(msg) == [i \in 1..Len(msg) |-> LowerWord(msg[i])]

\* pat in msg
Contains(msg, pat) ==
    \E i \in 1..(Len(msg) - Len(pat) + 1) : SubSeq(msg, i, i + Len(pat) - 1) = pat

ContentionPatterns ==
    { <<"database", "is", "locked">>, <<"database", "locked">>,
      <<"lock", "wait", "timeout">>, <<"deadlock">>, <<"too", "many", "connections">> }

\* the condition of the except clause on the message of the error
IsContention_always(msg) == TRUE

IsContention(msg) ==
    LET error_msg == Lower(msg)
    IN  \E pat \in ContentionPatterns : Contains(error_msg, pat)

Error(cls, msg) == [cls |-> cls, msg |-> msg]

Ok == [cls |-> "none", msg |-> <<>>]

Returned(calls, waits) ==
    [calls |-> calls, waits |-> waits, outcome |-> "returned", error |-> Ok]

Raised(calls, waits, e) ==
    [calls |-> calls, waits |-> waits, outcome |-> "raised", error |-> e]

\* the loop of main.py:43-58 from the iteration `attempt` on; answers[i] is
\* what the i-th call of func does
RECURSIVE RetryLoop(_, _, _, _)
RetryLoop(answers, attempt, delay, waits) ==
    LET e == answers[attempt + 1]
    IN  IF attempt >= max_retries
        THEN [calls |-> attempt, waits |-> waits, outcome |-> "fell_through", error |-> Ok]
        ELSE IF e = Ok
        THEN Returned(attempt + 1, waits)
        ELSE IF e.cls # "OperationalError"
        THEN Raised(attempt + 1, waits, e)
        ELSE IF IsContention(e.msg) /\ attempt < max_retries - 1
        THEN RetryLoop(answers, attempt + 1, (delay * 25) \div 10, Append(waits, delay))
        ELSE Raised(attempt + 1, waits, e)

execute_with_retry_once(answers) ==
    IF answers[1] = Ok THEN Returned(1, <<>>) ELSE Raised(1, <<>>, answers[1])

execute_with_retry(answers) == RetryLoop(answers, 0, InitialDelay, <<>>)

\* the loop of position_manager.py:13-28
RECURSIVE DbRetryLoop(_, _, _, _)
DbRetryLoop(answers, attempt, delay, waits) ==
    LET e == answers[attempt + 1]
    IN  IF attempt >= max_retries
        THEN [calls |-> attempt, waits |-> waits, outcome |-> "fell_through", error |-> Ok]
        ELSE IF e = Ok
        THEN Returned(attempt + 1, waits)
        ELSE IF e.cls # "OperationalError"
        THEN Raised(attempt + 1, waits, e)
        ELSE IF IsContention(e.msg) /\ attempt < max_retries - 1
        THEN DbRetryLoop(answers, attempt + 1, (delay * 25) \div 10, Append(waits, delay))
        ELSE Raised(attempt + 1, waits, e)

execute_db_operation_with_retry(answers) == DbRetryLoop(answers, 0, InitialDelay, <<>>)

\* the calls whose answers are drawn: one more than the wrappers can make
MaxCalls == 8

LockedError ==
    Error("OperationalError", <<"(sqlite3.OperationalError)", "database", "is", "locked">>)

\* errors the database drivers raise on contention
ContentionErrors ==
    { LockedError,
      Error("OperationalError", <<"Database", "Locked">>),
      Error("OperationalError", <<"(pymysql.err.OperationalError)", "Lock", "wait", "timeout",
                                  "exceeded">>),
      Error("OperationalError", <<"(pymysql.err.OperationalError)", "Deadlock", "found">>),
      Error("OperationalError", <<"(pymysql.err.OperationalError)", "Too", "many",
                                  "connections">>) }

\* other errors of the wrapped operation
OtherErrors ==
    { Error("OperationalError", <<"(sqlite3.OperationalError)", "no", "such", "table">>),
      Error("OperationalError", <<"(sqlite3.OperationalError)", "disk", "is", "full">>),
      Error("IntegrityError", <<"UNIQUE", "constraint", "failed">>),
      Error("InternalError", <<"(psycopg2.errors.DeadlockDetected)", "deadlock", "detected">>),
      Error("HTTPException", <<"500">>) }

\* what the wrapped operation does call by call: it fails on contention
\* `failures` times (with one of two messages, in turn), then does `then`, and
\* from then on `later`
Answers(failures, e1, e2, then, later) ==
    [i \in 1..MaxCalls |->
        IF i <= failures THEN (IF i % 2 = 1 THEN e1 ELSE e2)
        ELSE IF i = failures + 1 THEN then
        ELSE later]

RetryRuns ==
    { Answers(n, e1, e2, then, later) :
        n \in 0..MaxCalls, e1 \in ContentionErrors, e2 \in ContentionErrors,
        then \in {Ok} \cup OtherErrors, later \in {Ok, LockedError} }

InitRetry ==
    /\ positions = {}
    /\ processed_events = {}
    /\ active_monitors = [k \in MonitorKeys |-> None]
    /\ account_configs = AccountConfigs
    /\ routing_rules = DefaultRoutingRules(AccountConfigs)
    /\ in_flight = None
    /\ workers = [w \in Workers |-> IdleWorker]
    /\ \E answers \in RetryRuns :
          retry = Some([answers |-> answers, main |-> None, pm |-> None,
                        webhook |-> None])

\* main.py:41-58 run on an operation
ExecuteWithRetry ==
    /\ retry # None
    /\ Val(retry).main = None
    /\ retry' = Some([Val(retry) EXCEPT !.main = Some(execute_with_retry(Val(retry).answers))])
    /\ UNCHANGED <<positions, processed_events, active_monitors, config, in_flight, workers>>

\* position_manager.py:11-28 run on an operation
ExecuteDbOperationWithRetry ==
    /\ retry # None
    /\ Val(retry).pm = None
    /\ retry' = Some([Val(retry) EXCEPT
                        !.pm = Some(execute_db_operation_with_retry(Val(retry).answers))])
    /\ UNCHANGED <<positions, processed_events, active_monitors, config, in_flight, workers>>

\* what execute_webhook_logic raises when the storage operation it runs
\* (the dedupe lookup, the commit) answers e: an HTTPException passes, any
\* other exception is turned into HTTPException(500) (main.py:721-731)
execute_webhook_logic(e) ==
    IF e = Ok \/ e.cls = "HTTPException" THEN e
    ELSE Error("HTTPException", <<"500">>)

\* main.py:737: the wrapper is run on execute_webhook_logic
WebhookWithRetry(answers) ==
    execute_with_retry([i \in 1..MaxCalls |-> execute_webhook_logic(answers[i])])

\* POST /webhook when its storage operation answers as drawn
ExecuteWebhookWithRetry ==
    /\ retry # None
    /\ Val(retry).webhook = None
    /\ retry' = Some([Val(retry) EXCEPT !.webhook = Some(WebhookWithRetry(Val(retry).answers))])
    /\ UNCHANGED <<positions, processed_events, active_monitors, config, in_flight, workers>>

NextRetry == ExecuteWithRetry \/ ExecuteDbOperationWithRetry \/ ExecuteWebhookWithRetry

SpecRetry == InitRetry /\ [][NextRetry]_vars

\* the results of the wrapper runs made so far
RetryResults ==
    IF retry = None THEN {}
    ELSE { Val(x) : x \in {Val(retry).main, Val(retry).pm} \ {None} }

\* how many calls fail on contention before the first call that does not
LeadingFailures(answers) ==
    CHOOSE n \in 0..MaxCalls :
        /\ \A i \in 1..n : answers[i] \in ContentionErrors
        /\ n = MaxCalls \/ answers[n + 1] \notin ContentionErrors

\* 0.1 s, then 2.5 times the wait before, in units of 1/640 s
WaitSchedule == <<64, 160, 400, 1000, 2500, 6250>>

\* C23: a retry wrapper calls the operation at most 7 times: it calls again
\* after every contention failure but the 7th, waiting 0.1 s and then 2.5
\* times longer each time; it returns at the first success and raises the
\* error of the 7th call when that fails too, so every run ends.
C23_RetryWrapper ==
    \A r \in RetryResults :
        LET answers == Val(retry).answers
            n == LeadingFailures(answers)
            calls == IF n + 1 <= 7 THEN n + 1 ELSE 7
        IN  /\ r.calls = calls
            /\ r.waits = SubSeq(WaitSchedule, 1, calls - 1)
            /\ r.outcome \in {"returned", "raised"}
            /\ answers[calls] = Ok => r.outcome = "returned"
            /\ answers[calls] # Ok => r.outcome = "raised" /\ r.error = answers[calls]

\* C23 witness: both wrappers have run on an operation that fails on
\* contention at every call: seven calls, six waits, the last error raised.
C23_Witness ==
    /\ Cardinality(RetryResults) = 1
    /\ Val(retry).main # None /\ Val(retry).pm # None
    /\ \A r \in RetryResults :
          r.calls = 7 /\ Len(r.waits) = 6 /\ r.outcome = "raised"
          /\ r.error \in ContentionErrors

\* C24: an error that is not a contention failure (another exception class,
\* or an OperationalError with another message) leaves the wrapper at once:
\* when the first call raises one, the wrapper has made one call and no wait.
C24_FatalNotRetried ==
    \A r \in RetryResults :
        LET answers == Val(retry).answers
        IN  answers[1] \in OtherErrors =>
                r.calls = 1 /\ r.waits = <<>> /\ r.outcome = "raised" /\ r.error = answers[1]

\* C24 witness: a wrapper has run on an operation whose first call raises an
\* OperationalError that is no contention failure, and a later call would
\* have succeeded.
C24_Witness ==
    \E r \in RetryResults :
        /\ Val(retry).answers[1] \in OtherErrors
        /\ Val(retry).answers[1].cls = "OperationalError"
        /\ Val(retry).answers[2] = Ok
        /\ r.calls = 1

\* C25: a monitor cycle that runs beside a request places an exit order for
\* a position, the request commits, and before the cycle records its exit a
\* TP1_HIT signal exits the same OPEN position: the stored remaining_qty is
\* then lower than before by the quantities of both orders.
C25_BothExitsRecorded ==
    in_flight # None =>
    \A prices \in [MonitorKeys -> Prices] :
      LET cycle == check_prices(active_monitors, positions, prices, AllFilled)
          committed == Val(in_flight)
      IN  \A e \in EventIds \ committed.evs : \A k \in MonitorKeys :
            LET x == handle_signal(BaseRequest(e, "TP1_HIT"), QuietEnv, committed.tbl,
                                   committed.evs, CloseSession(cycle.mon))
            IN  (~IsNone(active_monitors[k]) /\ Len(x.orders) = 1)
                => \A p \in StoredRow(committed.tbl, Val(active_monitors[k])) :
                   \A om \in OrdersFor(cycle, k) :
                     ( /\ p.status = "OPEN"
                       /\ OrdersFor(cycle, k) = {om}
                       /\ x.orders[1].account = p.account_id
                       /\ x.orders[1].reduce_only
                       /\ om.qty + x.orders[1].qty <= p.remaining_qty )
                     => \E p2 \in StoredRow(x.tbl, Val(active_monitors[k])) :
                           p2.remaining_qty = p.remaining_qty - om.qty - x.orders[1].qty

\* ---------------------------------------------------------------------------
\* One signal delivered twice at the same time (main.py:210-737)
\* ---------------------------------------------------------------------------

DuplicateTypes == {"LONG_ENTRY", "TP1_HIT", "CLOSE"}

\* the signals followed: to one enabled account, or to accounts that are all
\* skipped before the first query (main.py:300-313)
DuplicateRequests(evs) ==
    {[BaseRequest(e, t) EXCEPT !.account_profile = ap] :
        e \in CandidateEventIds(evs), t \in DuplicateTypes, ap \in {<<ACC_A>>, <<ACC_C>>}}

Busy(w) == workers[w].pc \in {"received", "validated", "flushed", "queried", "ordered"}

\* the worker holds the row of an event id it has inserted and not committed
HoldsEvent(w, event_id) ==
    /\ workers[w].pc \in {"flushed", "queried", "ordered"}
    /\ Val(workers[w].req).event_id = event_id

SetWorker(w, rec) ==
    /\ workers' = [workers EXCEPT ![w] = rec]
    /\ UNCHANGED <<config, in_flight, retry>>

\* a request reaches a worker; a second request is followed beside one that
\* is being answered when it carries the same event_id
Receive(w) ==
    /\ workers[w].pc = "idle"
    /\ \A v \in Workers : workers[v].pc # "answered"
    /\ \E req \in DuplicateRequests(processed_events) :
          /\ \A v \in Workers : Busy(v) => Val(workers[v].req).event_id = req.event_id
          /\ SetWorker(w, [IdleWorker EXCEPT !.pc = "received", !.req = Some(req)])
    /\ UNCHANGED <<positions, processed_events, active_monitors>>

\* main.py:214-288: the checks, among them the query of processed_events,
\* and db.add(ProcessedEvent(event_id))
Validate(w) ==
    /\ workers[w].pc = "received"
    /\ LET code == ValidateRequest(Val(workers[w].req), processed_events)
       IN  SetWorker(w, IF code = 200 THEN [workers[w] EXCEPT !.pc = "validated"]
                        ELSE [workers[w] EXCEPT !.pc = "answered", !.code = code])
    /\ UNCHANGED <<positions, processed_events, active_monitors>>

\* the INSERT of the pending ProcessedEvent, sent by the flush that precedes
\* the first query of the loop (main.py:341) or by the commit when the loop
\* makes none: it waits while another transaction holds the same primary
\* key (models.py:11), and fails when that key is committed or the wait is
\* given up; the error ends the request with 500 (main.py:703-706, 728-731)
Flush(w) ==
    /\ workers[w].pc = "validated"
    /\ LET event_id == Val(workers[w].req).event_id
           waits == \E v \in Workers \ {w} : HoldsEvent(v, event_id)
       IN  \/ /\ ~waits
              /\ SetWorker(w, IF event_id \in processed_events
                              THEN [workers[w] EXCEPT !.pc = "answered", !.code = 500]
                              ELSE [workers[w] EXCEPT !.pc = "flushed"])
           \/ /\ waits
              /\ SetWorker(w, [workers[w] EXCEPT !.pc = "answered", !.code = 500])
    /\ UNCHANGED <<positions, processed_events, active_monitors>>

\* main.py:290-706: the loop over the accounts, with its orders
Process(w) ==
    /\ workers[w].pc = "flushed"
    /\ LET req == Val(workers[w].req) IN
       \E env \in EnvsFor(req, positions, processed_events, active_monitors) :
          LET r == handle_signal(req, env, positions, processed_events, active_monitors)
          IN  /\ positions' = r.tbl_open
              /\ active_monitors' = r.mon_open
              /\ SetWorker(w, [workers[w] EXCEPT
                                  !.pc = "ordered", !.sent = (r.orders # <<>>),
                                  !.code = r.status_code,
                                  !.held = Some([tbl |-> r.tbl, evs |-> r.evs])])
    /\ UNCHANGED processed_events

\* main.py:708-734: the commit, or the rollback when it fails
Commit(w) ==
    /\ workers[w].pc = "ordered"
    /\ positions' = Val(workers[w].held).tbl
    /\ processed_events' = Val(workers[w].held).evs
    /\ active_monitors' = CloseSession(active_monitors)
    /\ SetWorker(w, [workers[w] EXCEPT !.pc = "answered", !.held = None])

\* the answers are out
Retire ==
    /\ \E w \in Workers : workers[w].pc = "answered"
    /\ \A w \in Workers : ~Busy(w)
    /\ workers' = [w \in Workers |-> IdleWorker]
    /\ UNCHANGED <<positions, processed_events, active_monitors, config, in_flight, retry>>

NextDuplicate ==
    \/ \E w \in Workers : Receive(w)
    \/ \E w \in Workers : Validate(w)
    \/ \E w \in Workers : Flush(w)
    \/ \E w \in Workers : Process(w)
    \/ \E w \in Workers : Commit(w)
    \/ Retire

SpecDuplicate == Init /\ [][NextDuplicate]_vars

\* both workers have a request with the same event_id
Duplicated ==
    /\ \A w \in Workers : workers[w].pc # "idle"
    /\ Val(workers[1].req).event_id = Val(workers[2].req).event_id

\* C26: of two requests with the same event_id that are handled at the same
\* time, at most one sends orders to the exchange.
C26_OneOfTwoSends ==
    Duplicated => ~(workers[1].sent /\ workers[2].sent)

\* the quantities the position can have on the exchange (0, or 1 for any
\* other) when get_position_info answers as the snapshot says
QtyOnExchange(snapshot) ==
    CASE snapshot \in {"none", "zero"} -> {0}
      [] snapshot = "open" -> {1}
      [] snapshot = "query_failed" -> {0, 1}

\* C27: a reconciliation pass that commits turns every stored OPEN position
\* whose quantity on the exchange is zero into CLOSED with remaining_qty 0,
\* adds initial_qty minus the sum of the buckets to other_closed_qty when
\* that is positive, so that the buckets then sum to initial_qty; and it
\* leaves an OPEN position whose quantity on the exchange is not zero as it
\* is.
C27_Reconciliation ==
    \A snapshot \in [{r.id : r \in {p \in positions : p.status = "OPEN"}} -> Snapshots] :
      LET after == sync_positions_with_exchange(positions, snapshot, TRUE) IN
      \A p \in positions :
        p.status = "OPEN" =>
          \A q \in QtyOnExchange(snapshot[p.id]) :
            \E p2 \in after :
              /\ p2.id = p.id
              /\ IF q = 0
                 THEN /\ p2.status = "CLOSED" /\ p2.remaining_qty = 0
                      /\ p2.other_closed_qty = p.other_closed_qty
                            + (IF p.initial_qty > TotalClosed(p)
                               THEN p.initial_qty - TotalClosed(p) ELSE 0)
                      /\ TotalClosed(p2) = p.initial_qty
                 ELSE p2 = p

\* C28: a level for which a monitor cycle has placed its order gets no
\* order in the cycle after it, whatever the prices of that cycle.
C28_LevelOrderedOnce ==
    \A prices \in [MonitorKeys -> Prices] : \A later \in [MonitorKeys -> Prices] :
      LET first == check_prices(active_monitors, positions, prices, AllFilled)
          second == check_prices(first.mon, first.tbl, later, AllFilled)
      IN  \A o \in first.orders :
            ~\E o2 \in second.orders : o2.account = o.account /\ o2.level = o.level

\* the stored row of a monitored key is CLOSED
ClosedInStorage(tbl, info) ==
    /\ StoredRow(tbl, info) # {}
    /\ \A p \in StoredRow(tbl, info) : p.status = "CLOSED"

\* the request that is being answered has registered the key with the
\* monitor: it reopens the row, and has not committed yet
ReopenInFlight(k) ==
    /\ in_flight # None
    /\ ~IsNone(active_monitors[k])
    /\ Val(active_monitors[k]).session_open

\* the table as it is, and as a reconciliation pass can leave it
AfterReconciliation ==
    {positions} \cup
    {sync_positions_with_exchange(positions, snapshot, TRUE) :
        snapshot \in [{r.id : r \in {p \in positions : p.status = "OPEN"}} -> Snapshots]}

\* C29: a monitor cycle places no order for a monitored key whose stored
\* position is CLOSED, whether a signal or the reconciliation closed it,
\* whatever levels are still pending for it and whatever the prices are,
\* unless the request that reopens the position is being answered.
C29_NoOrderForClosed ==
    \A tbl \in AfterReconciliation :
    \A prices \in [MonitorKeys -> Prices] : \A order_out \in MonitorOrderOutcomes :
      LET r == check_prices(active_monitors, tbl, prices, order_out) IN
      \A k \in MonitorKeys :
        ( /\ ~IsNone(active_monitors[k])
          /\ ClosedInStorage(tbl, Val(active_monitors[k]))
          /\ ~ReopenInFlight(k) )
        => OrdersFor(r, k) = {}

\* C29 as stated: a monitor cycle places no order for a monitored key whose
\* stored position is CLOSED.
C29_NoOrderForClosedRow ==
    \A prices \in [MonitorKeys -> Prices] : \A order_out \in MonitorOrderOutcomes :
      LET r == check_prices(active_monitors, positions, prices, order_out) IN
      \A k \in MonitorKeys :
        (~IsNone(active_monitors[k]) /\ ClosedInStorage(positions, Val(active_monitors[k])))
        => OrdersFor(r, k) = {}

\* C29 witness: a position registered with the monitor was closed by a
\* signal, a level is still pending for it and the price 110 has crossed it.
C29_Witness ==
    /\ in_flight = None
    /\ \E k \in MonitorKeys :
          /\ ~IsNone(active_monitors[k])
          /\ ClosedInStorage(positions, Val(active_monitors[k]))
          /\ \E l \in Val(active_monitors[k]).tp_levels :
                Crossed(Val(active_monitors[k]).side, 110, l)

\* C30: after a full-close signal that was carried out for an account, or a
\* partial exit that left nothing of the position, the next entry signal
\* for the same key is carried out: it sends its opening order and leaves
\* the position OPEN with the quantity of the entry.
C30_EntryAfterClose ==
    \A req \in Requests(processed_events) :
      \A env \in EnvsFor(req, positions, processed_events, active_monitors) :
        LET r == handle_signal(req, env, positions, processed_events, active_monitors)
        IN  \A acc \in AccountsOf(req) : \A e \in EventIds \ r.evs :
              ( /\ r.status_code = 200
                /\ r.results[acc].status = "success"
                /\ \/ req.event_type \in FullCloseTypes
                   \/ /\ req.event_type \in PartialTypes
                      /\ \A q \in RowsOf(r.tbl, acc, req.symbol, req.strategy_id) :
                            q.remaining_qty <= 0 )
              => LET entry == [BaseRequest(e, "LONG_ENTRY") EXCEPT
                                  !.strategy_id = req.strategy_id,
                                  !.account_profile = <<acc>>]
                     r2 == handle_signal(entry, QuietEnv, r.tbl, r.evs, r.mon)
                 IN  /\ r2.results[acc].status = "success"
                     /\ OrdersOn(r2, acc) # {}
                     /\ \E q \in RowsOf(r2.tbl, acc, req.symbol, req.strategy_id) :
                           /\ q.status = "OPEN"
                           /\ q.remaining_qty = EntryQty(entry, acc)

\* C31: when an entry signal that names no quantity goes to several
\* accounts, the opening order of each account and the position it opens
\* have the position_size configured for that account.
C31_OwnDefaults ==
    \A req \in RoutedRequests(processed_events) :
      \A env \in EnvsFor(req, positions, processed_events, active_monitors) :
        LET r == handle_signal(req, env, positions, processed_events, active_monitors)
        IN  (req.event_type \in EntryTypes /\ IsNone(req.quantity))
            => \A i \in 1..Len(r.orders) :
                 LET acc == r.orders[i].account IN
                 /\ r.orders[i].qty = account_configs[acc].position_size
                 /\ (r.status_code = 200 /\ r.results[acc].status = "success")
                    => \A q \in RowsOf(r.tbl, acc, req.symbol, req.strategy_id) :
                          q.initial_qty = account_configs[acc].position_size

\* C32: when the exchange refuses the exit order of an account with a
\* quantity error, for a partial exit as for a full close, the outcome of
\* the account is a warning and its position is as it was.
C32_QuantityRejectionWarns ==
    \A req \in Requests(processed_events) : \A acc \in AccountsOf(req) :
      LET env == [QuietEnv EXCEPT !.order[acc] = "rejected_qty"]
          r == handle_signal(req, env, positions, processed_events, active_monitors)
      IN  (req.event_type \in PartialTypes \cup FullCloseTypes /\ r.attempts[acc] = "exit")
          => /\ r.results[acc].status = "warning"
             /\ RowsOf(r.tbl, acc, req.symbol, req.strategy_id)
                  = RowsOf(positions, acc, req.symbol, req.strategy_id)

\* C33: when a storage operation of the webhook handler fails on
\* contention, the request is run again: it is answered with a failure only
\* after the seventh contention failure, and with the answer of the first
\* run that meets no contention otherwise.
C33_ContentionRetried ==
    (retry # None /\ Val(retry).webhook # None)
    => LET answers == Val(retry).answers
           r == Val(Val(retry).webhook)
           n == LeadingFailures(answers)
       IN  n >= 1 => /\ r.calls = (IF n + 1 <= 7 THEN n + 1 ELSE 7)
                     /\ (n < 7 /\ answers[n + 1] = Ok) => r.outcome = "returned"

\* the signal that names the tier of a level
HitOf(name) == IF name = "TP1" THEN "TP1_HIT" ELSE "TP2_HIT"

\* C34: when a monitor cycle executes one level of a position, the stored
\* row is afterwards what a TPn_HIT signal of the same tier and fraction
\* makes of the same row: same remaining_qty, buckets, tp_level and status.
C34_MonitorAsWebhook ==
    in_flight # None =>
    \A prices \in [MonitorKeys -> Prices] : \A k \in MonitorKeys :
    \A e \in EventIds \ Val(in_flight).evs :
      LET tbl == Val(in_flight).tbl
          cycle == check_prices(active_monitors, tbl, prices, AllFilled)
      IN  ~IsNone(active_monitors[k]) =>
          \A o \in OrdersFor(cycle, k) : \A l \in Val(active_monitors[k]).tp_levels :
            LET info == Val(active_monitors[k])
                hit == [BaseRequest(e, HitOf(l.name)) EXCEPT
                           !.account_profile = <<k[1]>>,
                           !.tp_percentage = Some(l.percent)]
                hook == handle_signal(hit, QuietEnv, tbl, Val(in_flight).evs,
                                      CloseSession(active_monitors))
            IN  (OrdersFor(cycle, k) = {o} /\ o.level = l.name
                 /\ \E p \in StoredRow(tbl, info) : p.status = "OPEN")
                => \A pm \in StoredRow(cycle.tbl, info) :
                   \E ph \in StoredRow(hook.tbl, info) :
                      /\ pm.remaining_qty = ph.remaining_qty
                      /\ \A b \in Buckets : pm[b] = ph[b]
                      /\ pm.tp_level = ph.tp_level
                      /\ pm.status = ph.status

\* C35: after a monitor cycle has executed a level of a position, the
\* tp_levels of the stored row do not contain the level, and are the levels
\* the monitor still holds for the position.
C35_PendingLevelsPersisted ==
    in_flight # None =>
    \A prices \in [MonitorKeys -> Prices] : \A k \in MonitorKeys :
      LET cycle == check_prices(active_monitors, Val(in_flight).tbl, prices, AllFilled) IN
      ~IsNone(active_monitors[k]) =>
        \A o \in OrdersFor(cycle, k) :
        \A p \in StoredRow(cycle.tbl, Val(active_monitors[k])) :
          /\ \A l \in p.tp_levels : l.name # o.level
          /\ p.tp_levels = (IF IsNone(cycle.mon[k]) THEN {} ELSE Val(cycle.mon[k]).tp_levels)

\* C36: when a monitor cycle has executed every level that was pending for
\* a position, the position is no longer monitored, and the cycle after it
\* places no order for it.
C36_DeregisteredWhenDone ==
    \A prices \in [MonitorKeys -> Prices] : \A later \in [MonitorKeys -> Prices] :
      LET cycle == check_prices(active_monitors, positions, prices, AllFilled)
          next == check_prices(cycle.mon, cycle.tbl, later, AllFilled)
      IN  \A k \in MonitorKeys :
            ( /\ ~IsNone(active_monitors[k])
              /\ Val(active_monitors[k]).tp_levels # {}
              /\ \A l \in Val(active_monitors[k]).tp_levels :
                    \E o \in OrdersFor(cycle, k) : o.level = l.name )
            => /\ IsNone(cycle.mon[k])
               /\ OrdersFor(next, k) = {}

\* C37: an entry with a take-profit map for a key without OPEN position,
\* whose order is filled and stored, is answered success and leaves the key
\* monitored with the levels of the map, whether the row is new or reopened;
\* an entry without a map, or one that sends no order or whose order is
\* refused, leaves the monitor as it was.
C37_EntryRegisters ==
    \A req \in MonitorRequests(processed_events) :
      \A env \in EnvsFor(req, positions, processed_events, active_monitors) :
        LET r == handle_signal(req, env, positions, processed_events, active_monitors)
        IN  req.event_type \in EntryTypes =>
            \A acc \in AccountsOf(req) :
              LET k == <<acc, req.symbol>>
                  entered == /\ OpenRows(acc, req.symbol, req.strategy_id) = {}
                             /\ env.order[acc] = "filled"
                             /\ env.insert_ok /\ env.commit_ok
              IN  /\ (entered /\ req.tp_levels # {})
                     => /\ r.results[acc].status = "success"
                        /\ ~IsNone(r.mon[k])
                        /\ Val(r.mon[k]).tp_levels = req.tp_levels
                  /\ (req.tp_levels = {} \/ OrdersOn(r, acc) = {}
                      \/ env.order[acc] = "rejected")
                     => r.mon[k] = CloseSession(active_monitors)[k]

----------------------------------------------------------------------------
(* The monitor under two strategies that trade the same symbol on the same *)
(* account: each strategy has a row of its own (the row id ends in the     *)
(* strategy, main.py:339), the monitor has one entry per account and       *)
(* symbol (price_monitor.py:49).                                           *)

MaxStrategyEvents == 6
TradedStrategies == {Strategy, OtherStrategy}

\* the next event id the signal source has not used
NextEventId(evs) ==
    {e \in 1..MaxStrategyEvents : e \notin evs /\ \A f \in 1..(e - 1) : f \in evs}

StrategyRequests(evs) ==
    {[BaseRequest(e, t) EXCEPT !.strategy_id = s,
                               !.tp_levels = IF t = "CLOSE" THEN {} ELSE PairTpLevelMap] :
        e \in NextEventId(evs), t \in {"LONG_ENTRY", "CLOSE"}, s \in TradedStrategies}

\* POST /webhook up to the commit, for a signal of either strategy
WebhookBeginStrategies ==
    /\ in_flight = None
    /\ \E req \in StrategyRequests(processed_events) :
        \E env \in EnvsFor(req, positions, processed_events, active_monitors) :
          LET r == handle_signal(req, env, positions, processed_events, active_monitors)
          IN  /\ positions' = r.tbl_open
              /\ active_monitors' = r.mon_open
              /\ in_flight' = Some([tbl |-> r.tbl, evs |-> r.evs])
              /\ UNCHANGED <<processed_events, config, aux>>

NextMonitorStrategies == WebhookBeginStrategies \/ WebhookEnd \/ PriceMonitorCycle

SpecMonitorStrategies == Init /\ [][NextMonitorStrategies]_vars

\* C38: registering a position of one strategy leaves the monitor entry of
\* an OPEN position of another strategy on the same account and symbol in
\* place, with the same pending levels: for every entry signal with
\* take-profit levels and every monitored key whose registered row is OPEN
\* and belongs to another strategy, the key still holds that row and its
\* levels after the request.
C38_MonitoringPerPosition ==
    \A req \in StrategyRequests(processed_events) :
      \A env \in EnvsFor(req, positions, processed_events, active_monitors) :
        LET r == handle_signal(req, env, positions, processed_events, active_monitors)
        IN  (in_flight = None /\ req.event_type \in EntryTypes /\ req.tp_levels # {}) =>
            \A k \in MonitorKeys :
              (/\ ~IsNone(active_monitors[k])
               /\ \E row \in positions :
                    /\ row.id = Val(active_monitors[k]).position
                    /\ row.status = "OPEN"
                    /\ row.strategy_id # req.strategy_id)
              => /\ ~IsNone(r.mon_open[k])
                 /\ Val(r.mon_open[k]).position = Val(active_monitors[k]).position
                 /\ Val(r.mon_open[k]).tp_levels = Val(active_monitors[k]).tp_levels

\* C39: a reconciliation pass closes a stored OPEN position only when the
\* exchange reports no quantity for it (a position of amount 0, or no
\* position for the symbol); a position whose query fails is, after the
\* pass, the same row as before: OPEN, with every field unchanged.
C39_FailedQueryKeepsOpen ==
    \A snapshot \in [{r.id : r \in {p \in positions : p.status = "OPEN"}} -> Snapshots] :
      \A commit_ok \in BOOLEAN :
        LET after == sync_positions_with_exchange(positions, snapshot, commit_ok) IN
        \A p \in positions :
          p.status = "OPEN" =>
            /\ snapshot[p.id] = "query_failed" => p \in after
            /\ p \notin after => snapshot[p.id] \in {"none", "zero"}

----------------------------------------------------------------------------
(* Two signals with event ids of their own handled at the same time by two *)
(* worker processes (run.py:35) over a database that locks by row          *)
(* (main.py:63-73).  Nothing orders the two handlers between the query for *)
(* the OPEN row (main.py:341-344) and the order that follows it            *)
(* (main.py:365, 426), so the two are steps of their own here.             *)

MaxConcurrentEvents == 4
ConcurrentTypes == {"LONG_ENTRY", "CLOSE"}

\* the event ids a worker is answering
Carried == {Val(workers[v].req).event_id : v \in {u \in Workers : workers[u].pc # "idle"}}

\* the next event id that is neither recorded nor being answered
ConcurrentRequests ==
    {BaseRequest(e, t) :
        e \in {i \in 1..MaxConcurrentEvents :
                 /\ i \notin processed_events \cup Carried
                 /\ \A j \in 1..(i - 1) : j \in processed_events \cup Carried},
        t \in ConcurrentTypes}

\* a request reaches a worker, beside the one the other worker is answering
ReceiveConcurrent(w) ==
    /\ workers[w].pc = "idle"
    /\ \A v \in Workers : workers[v].pc # "answered"
    /\ \E req \in ConcurrentRequests :
          SetWorker(w, [IdleWorker EXCEPT !.pc = "received", !.req = Some(req)])
    /\ UNCHANGED <<positions, processed_events, active_monitors>>

\* main.py:341-357: the queries for the OPEN row and for the row of any
\* status; the worker goes on with the rows it has read
Query(w) ==
    /\ workers[w].pc = "flushed"
    /\ SetWorker(w, [workers[w] EXCEPT
                        !.pc = "queried",
                        !.held = Some([tbl |-> positions, evs |-> processed_events])])
    /\ UNCHANGED <<positions, processed_events, active_monitors>>

\* main.py:346-706 after the queries: the order and the bookkeeping, on the
\* rows the worker has read.  create_new_position inserts into the table as
\* it is now and commits (position_manager.py:245-273): the insert fails on
\* the primary key (models.py:18) when the row has been created since the
\* query, and the handler records the error (main.py:485-488).  The rows
\* the session has changed are written at the commit.
Order(w) ==
    /\ workers[w].pc = "queried"
    /\ LET req == Val(workers[w].req)
           seen == Val(workers[w].held).tbl
       IN
       \E env \in EnvsFor(req, seen, processed_events, active_monitors) :
          LET \* the row of the key has been created since the query
              taken == \E a \in AccountsOf(req) :
                          LET id == PosId(a, req.symbol, req.strategy_id)
                          IN  RowsById(seen, id) = {} /\ RowsById(positions, id) # {}
              r == handle_signal(req, [env EXCEPT !.insert_ok = @ /\ ~taken], seen,
                                 processed_events, active_monitors)
          IN  /\ positions' = positions \cup (r.tbl_open \ seen)
              /\ active_monitors' = r.mon_open
              /\ SetWorker(w, [workers[w] EXCEPT
                                  !.pc = "ordered", !.sent = (r.orders # <<>>),
                                  !.code = r.status_code,
                                  !.held = Some([tbl |-> r.tbl \ r.tbl_open,
                                                 evs |-> r.evs \ processed_events])])
    /\ UNCHANGED processed_events

\* main.py:708-734: the commit writes the rows the session has changed and
\* its ProcessedEvent, or nothing when it fails
CommitWrites(w) ==
    /\ workers[w].pc = "ordered"
    /\ LET written == Val(workers[w].held).tbl IN
       positions' = {p \in positions : \A d \in written : d.id # p.id} \cup written
    /\ processed_events' = processed_events \cup Val(workers[w].held).evs
    /\ active_monitors' = CloseSession(active_monitors)
    /\ SetWorker(w, [workers[w] EXCEPT !.pc = "answered", !.held = None])

NextConcurrent ==
    \/ \E w \in Workers : ReceiveConcurrent(w)
    \/ \E w \in Workers : Validate(w)
    \/ \E w \in Workers : Flush(w)
    \/ \E w \in Workers : Query(w)
    \/ \E w \in Workers : Order(w)
    \/ \E w \in Workers : CommitWrites(w)
    \/ Retire

SpecConcurrent == Init /\ [][NextConcurrent]_vars

\* both workers are answering an ENTRY signal for the same account, symbol
\* and strategy, each with an event id of its own
ConcurrentEntries ==
    /\ \A w \in Workers :
          /\ workers[w].pc # "idle"
          /\ Val(workers[w].req).event_type \in EntryTypes
    /\ Val(workers[1].req).event_id # Val(workers[2].req).event_id
    /\ Val(workers[1].req).account_profile = Val(workers[2].req).account_profile
    /\ Val(workers[1].req).symbol = Val(workers[2].req).symbol
    /\ Val(workers[1].req).strategy_id = Val(workers[2].req).strategy_id

\* C40: of two ENTRY signals with different event ids for the same account,
\* symbol and strategy that are handled at the same time, at most one
\* places an opening order (the other finds the position open and is
\* blocked).
C40_OneEntryOrders ==
    ConcurrentEntries => ~(workers[1].sent /\ workers[2].sent)


====
